---- MODULE Spec2Model ----
(***************************************************************************)
(* Model of the X content deletion automation (delete-content.js and its   *)
(* console loops).  A snapshot is a text of lines; a line is reduced to    *)
(* the set of marker words it contains and the handle (uid= / ref=        *)
(* attribute) its pattern captures.  The host (browser tools) is           *)
(* adversarial: every snapshot it returns is any page of a bounded set and *)
(* every primitive may raise.  SpecAll runs deleteContent under            *)
(* deleteAllContent; SpecFollowers is the block/unblock follower script    *)
(* (remove-inactive-followers.js).                                         *)
(***************************************************************************)
EXTENDS Integers, Sequences, FiniteSets, TLC

\* ------------------------------------------------------------------ bounds
MaxCycles == 5      \* scan snapshots per run
MaxLines == 3       \* lines of a generated snapshot (finder specification)
MaxTweets == 2      \* nodes a console querySelectorAll returns
MaxConsoleScans == 7 \* querySelectorAll scans of a console run
MaxAllCycles == 4   \* scan snapshots per run inside deleteAllContent
MaxFollowerScans == 9 \* getFollowerElements scans of a follower run

\* --------------------------------------------------------------- constants
MAX_EMPTY_ATTEMPTS == 3
consoleMaxEmptyAttempts == 5

DevtoolsScripts == {"devtools"}
PlaywrightScripts == {"playwright"}
ContentScripts == DevtoolsScripts \cup PlaywrightScripts
ConsoleScripts == {"consoleMain", "consoleOpt"}
Scripts == ContentScripts \cup ConsoleScripts

CONFIG(v) ==
  IF v = "devtools"
  THEN [betweenClicks |-> 500, afterDeletion |-> 1000, scrollLoad |-> 3000,
        rateLimitSafe |-> 1000, scrollAmount |-> 150, logInterval |-> 10]
  ELSE IF v = "playwright"
  THEN [betweenClicks |-> 150, afterDeletion |-> 200, scrollLoad |-> 600,
        rateLimitSafe |-> 200, scrollAmount |-> 500, logInterval |-> 50]
  ELSE IF v = "consoleMain"
  THEN [betweenClicks |-> 300, afterDeletion |-> 800, scrollLoad |-> 2000,
        rateLimitSafe |-> 500, scrollAmount |-> 300, logInterval |-> 10]
  ELSE [betweenClicks |-> 150, afterDeletion |-> 200, scrollLoad |-> 600,
        rateLimitSafe |-> 200, scrollAmount |-> 500, logInterval |-> 50]

\* ------------------------------------------------------------ snapshot text
NoHandle == <<>>

Line(ws, h) == [words |-> ws, handle |-> h]

BlankLine == Line({}, NoHandle)

\* String.prototype.includes on a marker word: a longer word of the line
\* contains the shorter marker as a substring.
WordIncludes(x, w) ==
  \/ x = w
  \/ x = "unretweetConfirm" /\ w = "unretweet"
  \/ x = "reposted" /\ w = "repost"

includes(line, w) == \E x \in line.words : WordIncludes(x, w)

IsInfix(s, t) ==
  \E i \in 0..(Len(t) - Len(s)) : SubSeq(t, i + 1, i + Len(s)) = s

\* line.includes(tweet.uid): the digits of the handle occur in the line
includesUid(line, uid) == IsInfix(uid, line.handle)

\* line.match(/uid=["']([^"']+)["']/) resp. /ref="([^"]+)"/ : match[1]
matchHandle(line) == line.handle

\* Snapshot values of the host: null/undefined, an object with or without a
\* content string, or (playwright) a bare string.  text = <<>> is ''.
Snap(k, p, t) == [kind |-> k, present |-> p, text |-> t]

NullSnap == Snap("null", FALSE, <<>>)

split(t) == IF t = <<>> THEN <<BlankLine>> ELSE t

\* reading snapshot.content of null/undefined raises a TypeError
Throws(snap) == snap.kind = "null"

\* const lines = snapshot.content ? snapshot.content.split('\n') : [];
\* const content = snapshot.content || snapshot || ''; lines = typeof
\* content === 'string' ? content.split('\n') : [];
linesOf(v, snap) ==
  IF v \in PlaywrightScripts
  THEN IF snap.kind = "object"
       THEN IF snap.present /\ snap.text # <<>> THEN split(snap.text) ELSE <<>>
       ELSE split(snap.text)
  ELSE IF snap.kind = "object" /\ snap.present /\ snap.text # <<>>
       THEN split(snap.text)
       ELSE <<>>

NoTweet == [uid |-> NoHandle, text |-> BlankLine]

RECURSIVE tweetsFrom(_, _)
tweetsFrom(lines, i) ==
  IF i > Len(lines) THEN <<>>
  ELSE IF includes(lines[i], "article") /\ matchHandle(lines[i]) # NoHandle
       THEN <<[uid |-> matchHandle(lines[i]), text |-> lines[i]]>>
            \o tweetsFrom(lines, i + 1)
       ELSE tweetsFrom(lines, i + 1)

findTweetElements(v, snap) == tweetsFrom(linesOf(v, snap), 1)

\* The loop shared by findMoreButtonInTweet and findUnretweetButton: the
\* index of the line whose handle is returned, 0 for null.
RECURSIVE scanContext(_, _, _, _, _)
scanContext(lines, i, inTweetContext, uid, markers) ==
  IF i > Len(lines) THEN 0
  ELSE LET line == lines[i]
           ctx == inTweetContext \/ includesUid(line, uid)
       IN IF ctx /\ (\E w \in markers : includes(line, w))
                 /\ matchHandle(line) # NoHandle
          THEN i
          ELSE IF ctx /\ includes(line, "article") /\ ~includesUid(line, uid)
               THEN 0
               ELSE scanContext(lines, i + 1, ctx, uid, markers)

handleAt(lines, i) == IF i = 0 THEN NoHandle ELSE matchHandle(lines[i])

findMoreButtonIdx(v, snap, tweet) ==
  scanContext(linesOf(v, snap), 1, FALSE, tweet.uid, {"More", "caret"})

findMoreButtonInTweet(v, snap, tweet) ==
  handleAt(linesOf(v, snap), findMoreButtonIdx(v, snap, tweet))

findUnretweetIdx(v, snap, tweet) ==
  scanContext(linesOf(v, snap), 1, FALSE, tweet.uid, {"unretweet"})

findUnretweetButton(v, snap, tweet) ==
  handleAt(linesOf(v, snap), findUnretweetIdx(v, snap, tweet))

isDeleteLine(line) == includes(line, "Delete") \/ includes(line, "delete")

isUndoLine(line) == includes(line, "Undo")

isUndoLinePlaywright(line) ==
  includes(line, "Undo") \/ includes(line, "unretweetConfirm")

isConfirmLine(line) ==
  \/ includes(line, "confirmationSheetConfirm")
  \/ includes(line, "Delete") /\ includes(line, "button")

lineIs(test, line) ==
  CASE test = "delete" -> isDeleteLine(line)
    [] test = "undo" -> isUndoLine(line)
    [] test = "undoPlaywright" -> isUndoLinePlaywright(line)
    [] test = "confirm" -> isConfirmLine(line)

\* for (const line of lines) { if (<test> && line.match(..)) return match[1] }
RECURSIVE firstWith(_, _, _)
firstWith(lines, i, test) ==
  IF i > Len(lines) THEN NoHandle
  ELSE IF lineIs(test, lines[i]) /\ matchHandle(lines[i]) # NoHandle
       THEN matchHandle(lines[i])
       ELSE firstWith(lines, i + 1, test)

findDeleteButton(v, snap) == firstWith(linesOf(v, snap), 1, "delete")

findUnretweetConfirmButton(v, snap) ==
  IF v \in PlaywrightScripts
  THEN firstWith(linesOf(v, snap), 1, "undoPlaywright")
  ELSE firstWith(linesOf(v, snap), 1, "undo")

findConfirmButton(v, snap) == firstWith(linesOf(v, snap), 1, "confirm")

\* variant: only the marker 'retweeted' makes a repost
isRepostOneMarker(tweet) == includes(tweet.text, "retweeted")

\* tweet.text of an item that has no text property
NoText == [words |-> {}, handle |-> NoHandle, undefined |-> TRUE]

\* the truthiness of tweet.text: undefined and '' are falsy
truthy(text) == text # NoText /\ text.words # {}

\* variant: the marker 'retweeted' is not tested
isRepostTwoMarkers(tweet) ==
  /\ truthy(tweet.text)
  /\ \/ includes(tweet.text, "Reposted")
     \/ includes(tweet.text, "repost")

\* return tweet.text && (tweet.text.includes('Reposted') || ...)
isRepost(tweet) ==
  /\ truthy(tweet.text)
  /\ \/ includes(tweet.text, "Reposted")
     \/ includes(tweet.text, "retweeted")
     \/ includes(tweet.text, "repost")

\* ------------------------------------------------------------ host pages
Article(h) == Line({"article"}, h)
RepostArticle(h) == Line({"article", "Reposted"}, h)
Button(w, h) == Line({w, "button"}, h)
MenuItem(w, h) == Line({w}, h)

Page(t) == Snap("object", TRUE, t)

\* The pages the host returns to deleteContent: nothing readable, a feed with
\* an ordinary item, with a repost, with an item that has no control, with an
\* open menu, with a confirmation sheet or an undo entry.
Pages ==
  { NullSnap,
    Snap("object", FALSE, <<>>),
    Page(<<>>),
    Page(<<Article(<<1>>), Button("More", <<2>>)>>),
    Page(<<Article(<<1>>)>>),
    Page(<<Article(<<1>>), Article(<<1, 2>>), Button("More", <<2>>)>>),
    Page(<<RepostArticle(<<1>>), Button("unretweet", <<2>>)>>),
    Page(<<RepostArticle(<<1>>), Button("More", <<2>>),
           Button("unretweet", <<1, 2>>)>>),
    Page(<<RepostArticle(<<1>>)>>),
    Page(<<Article(<<1>>), Button("More", <<2>>), MenuItem("Delete", <<2, 1>>)>>),
    Page(<<Article(<<1>>), Button("confirmationSheetConfirm", <<2, 2>>)>>),
    Page(<<RepostArticle(<<1>>), MenuItem("Undo", <<1, 1>>)>>) }

\* ------------------------------------------------------------------- state
VARIABLES
  script,                    \* which shipped loop runs
  pc,                        \* the await the loop is suspended at
  snapshot,                  \* const snapshot of the current iteration
  tweet,                     \* const tweet = tweets[0]
  handle,                    \* the uid/ref found for the next click
  snapId,                    \* number of snapshots captured so far
  deletedCount,
  consecutiveEmptyAttempts,
  totalFailed,               \* performance.totalFailed (console loops)
  nodes,                     \* length of the console NodeList tweets
  idx,                       \* position of the console loop in tweets
  waited,                    \* ms of delay awaited since the last host action
  scrolled,                  \* distance of the last window.scrollBy
  logLine,                   \* count printed by the progress log, -1 if none
  scanHist,                  \* per scan: did it yield no candidate
  raised,                    \* some host primitive raised
  missed,                    \* some control lookup returned null
  completed,                 \* cycles whose confirmation was performed
  did,                       \* host actions of the current cycle
  lastClick,                 \* handle of the last click and snapId at the click
  nonActionable,             \* tweets[0] has no control inside its container
  dispatched,                \* positions of the scan's candidates acted on
  selected,                  \* candidates handed to the executor so far
  errorAt,                   \* where an exception left the function
  caller,                    \* who called deleteContent
  contentType,               \* the contentType argument of the current call
  summary,                   \* const summary of deleteAllContent
  returned,                  \* content types whose deleteContent call returned
  sinceConfirm,              \* ms awaited since the last confirmation, -1 if none
  pending,                   \* host calls issued and not settled
  inflight,                  \* host calls unsettled while the last one was issued
  processedUsernames,        \* follower script: let processedUsernames
  follower,                  \* const follower = newFollowers[0]
  activity,                  \* const activity of the current iteration
  totalChecked,              \* performance.totalChecked
  totalRemoved,              \* performance.totalRemoved
  totalSkipped,              \* performance.totalSkipped
  blocked,                   \* the accounts the page holds as blocked
  profile,                   \* the document read by checkUserActivity
  args,                      \* arguments of a function called on its own
  result,                    \* the values that function returned, in order
  host,                      \* what the page serves: "any" page, or an item
                             \* that is "stuck" at the head of the feed
  popup,                     \* let popup: "null", or the window "open"/"closed"
  openPopups,                \* profile windows the browser has open
  attempt,                   \* waitForPopupLoad: let i, polls made so far
  readyState,                \* what the last poll read from popup.document
  paused,                    \* betweenFollowers awaited since the last check began
  checkLog,                  \* usernames selected for a check, in order
  removeLog                  \* usernames a removal action was invoked for

progVars == <<script, pc, snapshot, tweet, handle, snapId, deletedCount,
              consecutiveEmptyAttempts, totalFailed, nodes, idx>>
obsVars == <<waited, scrolled, logLine>>
histVars == <<scanHist, raised, missed, completed, did, lastClick,
              nonActionable, dispatched, selected, errorAt>>
allVars == <<caller, contentType, summary, returned>>
paceVars == <<sinceConfirm, pending, inflight>>
followerVars == <<processedUsernames, follower, activity, totalChecked,
                  totalRemoved, totalSkipped, blocked, profile>>
callVars == <<args, result>>
popupVars == <<popup, openPopups, attempt, readyState>>
logVars == <<paused, checkLog, removeLog>>
vars == <<progVars, obsVars, histVars, allVars, paceVars, followerVars,
          callVars, host, popupVars, logVars>>

Ref(u, s) == [uid |-> u, sid |-> s]
NoRef == Ref(NoHandle, 0)
NoClick == [uid |-> NoHandle, sid |-> 0, at |-> 0]

\* const summary = { posts: 0, replies: 0, reposts: 0, total: 0 }
InitAllContent(c) ==
  /\ caller = c
  /\ contentType = "POSTS"
  /\ summary = [posts |-> 0, replies |-> 0, reposts |-> 0, total |-> 0]
  /\ returned = <<>>

InitPace ==
  /\ sinceConfirm = -1
  /\ pending = 0
  /\ inflight = 0

NoFollower == "none"

NoActivity == [kind |-> "none", age |-> -1]

NoProfile == [landed |-> FALSE, tweets |-> <<>>]

NoArgs == <<>>

\* the page is free to serve anything
InitHost == host = "any"

\* let popup = null; no profile window is open and nothing was checked
InitPopup ==
  /\ popup = "null"
  /\ openPopups = 0
  /\ attempt = 0
  /\ readyState = "none"
  /\ paused = TRUE
  /\ checkLog = <<>>
  /\ removeLog = <<>>

\* no function is called on its own
InitCall ==
  /\ args = NoArgs
  /\ result = <<>>

\* const performance = {...}; let processedUsernames = new Set()
InitFollowerVars ==
  /\ processedUsernames = {}
  /\ follower = NoFollower
  /\ activity = NoActivity
  /\ totalChecked = 0
  /\ totalRemoved = 0
  /\ totalSkipped = 0
  /\ blocked = {}
  /\ profile = NoProfile

Init ==
  /\ script \in Scripts
  /\ pc = IF script \in ContentScripts THEN "start" ELSE "c_scan"
  /\ snapshot = NullSnap
  /\ tweet = NoTweet
  /\ handle = NoRef
  /\ snapId = 0
  /\ deletedCount = 0
  /\ consecutiveEmptyAttempts = 0
  /\ totalFailed = 0
  /\ nodes = 0
  /\ idx = 0
  /\ waited = 0
  /\ scrolled = 0
  /\ logLine = -1
  /\ scanHist = <<>>
  /\ raised = FALSE
  /\ missed = FALSE
  /\ completed = 0
  /\ did = {}
  /\ lastClick = NoClick
  /\ nonActionable = FALSE
  /\ dispatched = {}
  /\ selected = 0
  /\ errorAt = "none"
  /\ InitAllContent("direct")
  /\ InitPace
  /\ InitFollowerVars
  /\ InitPopup
  /\ InitHost
  /\ InitCall

\* --------------------------------------------------------- deleteContent
cfg == CONFIG(script)

\* Ground truth of a snapshot: the lines of the first item container, from
\* its container line up to the line before the next container line.
firstContainer(lines) ==
  IF \E i \in 1..Len(lines) :
       includes(lines[i], "article") /\ matchHandle(lines[i]) # NoHandle
  THEN CHOOSE i \in 1..Len(lines) :
         /\ includes(lines[i], "article") /\ matchHandle(lines[i]) # NoHandle
         /\ \A j \in 1..(i - 1) :
              ~(includes(lines[j], "article") /\ matchHandle(lines[j]) # NoHandle)
  ELSE 0

containerEnd(lines, a) ==
  IF \E i \in (a + 1)..Len(lines) : includes(lines[i], "article")
  THEN (CHOOSE i \in (a + 1)..Len(lines) :
          /\ includes(lines[i], "article")
          /\ \A j \in (a + 1)..(i - 1) : ~includes(lines[j], "article")) - 1
  ELSE Len(lines)

inContainer(lines, a, i) == a <= i /\ i <= containerEnd(lines, a)

hasControlInside(lines, a, markers) ==
  \E i \in (a + 1)..containerEnd(lines, a) :
    /\ \E w \in markers : includes(lines[i], w)
    /\ matchHandle(lines[i]) # NoHandle

\* leaving the iteration: the block-scoped constants are gone
LoopAgain ==
  /\ pc' = "scan"
  /\ snapshot' = NullSnap
  /\ tweet' = NoTweet
  /\ handle' = NoRef
  /\ did' = {}
  /\ nonActionable' = FALSE
  /\ dispatched' = {}

\* if (deletedCount % CONFIG.logInterval === 0) console.log(...)
progressLog(n) == IF n % cfg.logInterval = 0 THEN n ELSE -1

\* an exception leaves deleteContent
Propagate(where) ==
  /\ pc' = "error"
  /\ errorAt' = where
  /\ raised' = TRUE

\* variant: the host call is issued and the function goes on without await
AwaitDetached ==
  /\ inflight' = pending + 1
  /\ pending' = IF pending < 2 THEN pending + 1 ELSE pending

\* await <host call>: the call is issued while `pending` others are unsettled
\* and has settled when the function resumes
Await ==
  /\ inflight' = pending + 1
  /\ pending' = pending

\* pause awaited since the confirmation of the last completed removal: it
\* starts with the delays that follow the confirmation, grows with every
\* delay(ms) and is closed by the first click of the next item
Measure ==
  sinceConfirm' =
    IF completed' > completed THEN waited'
    ELSE IF pc \in {"clickMore", "clickUnretweet"} \/ sinceConfirm = -1
         THEN -1
         ELSE sinceConfirm + waited'

\* scans the model follows one call of deleteContent for; with a stuck
\* item the call is followed without end and scanHist holds the last
\* MAX_EMPTY_ATTEMPTS scans only
maxScans ==
  IF host = "stuck" THEN MAX_EMPTY_ATTEMPTS + 1
  ELSE IF caller = "deleteAllContent" THEN MaxAllCycles ELSE MaxCycles

\* the scan history after one more scan
scanned(empty) ==
  IF host = "stuck" /\ Len(scanHist) = MAX_EMPTY_ATTEMPTS
  THEN Append(Tail(scanHist), empty)
  ELSE Append(scanHist, empty)

\* the number of the snapshot captured next; snapshots and candidates are
\* not numbered while an item is stuck
nextSnap == IF host = "stuck" THEN 1 ELSE snapId + 1

nextSelected == IF host = "stuck" THEN selected ELSE selected + 1

\* whether a host call on the item may succeed: the delete click and the
\* confirmations of a stuck item always raise
outcomes(at) ==
  IF host = "stuck"
       /\ at \in {"clickDelete", "clickSheet", "clickUndoConfirm", "dialog"}
  THEN {FALSE}
  ELSE BOOLEAN

\* navigate_page({ type: 'url', url }); delay(scrollLoad)
Start ==
  /\ script \in ContentScripts
  /\ pc = "start"
  /\ \E ok \in BOOLEAN :
       IF ok
       THEN /\ pc' = "scan"
            /\ waited' = cfg.scrollLoad
            /\ UNCHANGED <<raised, errorAt>>
       ELSE /\ Propagate("navigate_page")
            /\ waited' = 0
  /\ UNCHANGED <<script, snapshot, tweet, handle, snapId, deletedCount,
                 consecutiveEmptyAttempts, totalFailed, nodes, idx, scrolled,
                 logLine, scanHist, missed, completed, did, lastClick,
                 nonActionable, dispatched, selected>>
  /\ Await
  /\ Measure
  /\ UNCHANGED <<allVars, followerVars, callVars, host, popupVars,
                 logVars>>

\* variant: a non-empty scan leaves the empty-scan counter as it is
ScanFoundNoReset(page, tweets) ==
  LET t == tweets[1]
      lines == linesOf(script, page)
      a == firstContainer(lines)
      u == findUnretweetButton(script, page, t)
      m == findMoreButtonInTweet(script, page, t)
  IN /\ UNCHANGED consecutiveEmptyAttempts
     /\ selected' = nextSelected
     /\ UNCHANGED <<completed, lastClick>>
     /\ IF isRepost(t)
        THEN IF u # NoHandle
             THEN /\ pc' = "clickUnretweet"
                  /\ handle' = Ref(u, nextSnap)
                  /\ snapshot' = page /\ tweet' = t
                  /\ dispatched' = {1} /\ did' = {}
                  /\ nonActionable' = ~hasControlInside(lines, a, {"unretweet"})
                  /\ waited' = 0 /\ logLine' = -1
                  /\ UNCHANGED <<missed, deletedCount>>
             ELSE /\ pc' = "endScroll"
                  /\ handle' = NoRef
                  /\ snapshot' = page /\ tweet' = t
                  /\ dispatched' = {1} /\ did' = {}
                  /\ nonActionable' = ~hasControlInside(lines, a, {"unretweet"})
                  /\ missed' = TRUE
                  /\ logLine' = progressLog(deletedCount)
                  /\ waited' = cfg.rateLimitSafe
                  /\ UNCHANGED deletedCount
        ELSE IF m = NoHandle
             THEN /\ LoopAgain
                  /\ missed' = TRUE
                  /\ waited' = 0 /\ logLine' = -1
                  /\ UNCHANGED deletedCount
             ELSE /\ pc' = "clickMore"
                  /\ handle' = Ref(m, nextSnap)
                  /\ snapshot' = page /\ tweet' = t
                  /\ dispatched' = {1} /\ did' = {}
                  /\ nonActionable' = ~hasControlInside(lines, a, {"More", "caret"})
                  /\ waited' = 0 /\ logLine' = -1
                  /\ UNCHANGED <<missed, deletedCount>>

\* lines 196-248: the scan snapshot, candidate extraction, the empty-scan
\* counter, the choice of tweets[0] and the lookup of its first control
ScanFound(page, tweets) ==
  LET t == tweets[1]
      lines == linesOf(script, page)
      a == firstContainer(lines)
      u == findUnretweetButton(script, page, t)
      m == findMoreButtonInTweet(script, page, t)
  IN /\ consecutiveEmptyAttempts' = 0
     /\ selected' = nextSelected
     /\ UNCHANGED <<completed, lastClick>>
     /\ IF isRepost(t)
        THEN IF u # NoHandle
             THEN /\ pc' = "clickUnretweet"
                  /\ handle' = Ref(u, nextSnap)
                  /\ snapshot' = page /\ tweet' = t
                  /\ dispatched' = {1} /\ did' = {}
                  /\ nonActionable' = ~hasControlInside(lines, a, {"unretweet"})
                  /\ waited' = 0 /\ logLine' = -1
                  /\ UNCHANGED <<missed, deletedCount>>
             ELSE /\ pc' = "endScroll"
                  /\ handle' = NoRef
                  /\ snapshot' = page /\ tweet' = t
                  /\ dispatched' = {1} /\ did' = {}
                  /\ nonActionable' = ~hasControlInside(lines, a, {"unretweet"})
                  /\ missed' = TRUE
                  /\ logLine' = progressLog(deletedCount)
                  /\ waited' = cfg.rateLimitSafe
                  /\ UNCHANGED deletedCount
        ELSE IF m = NoHandle
             THEN /\ LoopAgain
                  /\ missed' = TRUE
                  /\ waited' = 0 /\ logLine' = -1
                  /\ UNCHANGED deletedCount
             ELSE /\ pc' = "clickMore"
                  /\ handle' = Ref(m, nextSnap)
                  /\ snapshot' = page /\ tweet' = t
                  /\ dispatched' = {1} /\ did' = {}
                  /\ nonActionable' = ~hasControlInside(lines, a, {"More", "caret"})
                  /\ waited' = 0 /\ logLine' = -1
                  /\ UNCHANGED <<missed, deletedCount>>

\* variant: the run ends one empty scan late (> for >=)
ScanEmptyLate ==
  /\ consecutiveEmptyAttempts' = consecutiveEmptyAttempts + 1
  /\ pc' = IF consecutiveEmptyAttempts + 1 > MAX_EMPTY_ATTEMPTS
           THEN "done" ELSE "emptyScroll"
  /\ waited' = 0 /\ logLine' = -1
  /\ UNCHANGED <<snapshot, tweet, handle, deletedCount, missed, completed,
                 did, lastClick, nonActionable, dispatched, selected>>

ScanEmpty ==
  /\ consecutiveEmptyAttempts' = consecutiveEmptyAttempts + 1
  /\ pc' = IF consecutiveEmptyAttempts + 1 >= MAX_EMPTY_ATTEMPTS
           THEN "done" ELSE "emptyScroll"
  /\ waited' = 0 /\ logLine' = -1
  /\ UNCHANGED <<snapshot, tweet, handle, deletedCount, missed, completed,
                 did, lastClick, nonActionable, dispatched, selected>>

Scan ==
  /\ script \in ContentScripts
  /\ pc = "scan"
  /\ Len(scanHist) < maxScans
  /\ \E ok \in BOOLEAN, page \in Pages :
       IF ~ok
       THEN /\ Propagate("take_snapshot")
            /\ waited' = 0 /\ logLine' = -1
            /\ UNCHANGED <<snapshot, tweet, handle, snapId, deletedCount,
                           consecutiveEmptyAttempts, scanHist, missed,
                           completed, did, lastClick, nonActionable,
                           dispatched, selected>>
       ELSE /\ snapId' = nextSnap
            /\ IF Throws(page)
               THEN /\ Propagate("findTweetElements")
                    /\ waited' = 0 /\ logLine' = -1
                    /\ UNCHANGED <<snapshot, tweet, handle, deletedCount,
                                   consecutiveEmptyAttempts, scanHist, missed,
                                   completed, did, lastClick, nonActionable,
                                   dispatched, selected>>
               ELSE LET tweets == findTweetElements(script, page)
                    IN /\ scanHist' = scanned(tweets = <<>>)
                       /\ UNCHANGED <<raised, errorAt>>
                       /\ IF tweets = <<>>
                          THEN ScanEmpty
                          ELSE ScanFound(page, tweets)
  /\ UNCHANGED <<script, totalFailed, nodes, idx, scrolled>>
  /\ Await
  /\ Measure
  /\ UNCHANGED <<allVars, followerVars, callVars, host, popupVars,
                 logVars>>

\* variant: the next scan follows the scroll without the load wait
EmptyScrollNoWait ==
  /\ script \in ContentScripts
  /\ pc = "emptyScroll"
  /\ pc' = "scan"
  /\ scrolled' = 300
  /\ waited' = 0
  /\ logLine' = -1
  /\ UNCHANGED <<script, snapshot, tweet, handle, snapId, deletedCount,
                 consecutiveEmptyAttempts, totalFailed, nodes, idx,
                 scanHist, raised, missed, completed, did, lastClick,
                 nonActionable, dispatched, selected, errorAt>>
  /\ Await
  /\ Measure
  /\ UNCHANGED <<allVars, followerVars, callVars, host, popupVars,
                 logVars>>

\* lines 209-213: scroll by 300 after an empty scan, then wait
EmptyScroll ==
  /\ script \in ContentScripts
  /\ pc = "emptyScroll"
  /\ \E ok \in BOOLEAN :
       IF ok
       THEN /\ pc' = "scan"
            /\ scrolled' = 300
            /\ waited' = cfg.scrollLoad
            /\ UNCHANGED <<raised, errorAt>>
       ELSE /\ Propagate("evaluate_script")
            /\ waited' = 0
            /\ UNCHANGED scrolled
  /\ logLine' = -1
  /\ UNCHANGED <<script, snapshot, tweet, handle, snapId, deletedCount,
                 consecutiveEmptyAttempts, totalFailed, nodes, idx,
                 scanHist, missed, completed, did, lastClick,
                 nonActionable, dispatched, selected>>
  /\ Await
  /\ Measure
  /\ UNCHANGED <<allVars, followerVars, callVars, host, popupVars,
                 logVars>>

\* catch (error) { ... } : the handler of the per-item try block
Catch ==
  /\ pc' = "catchScroll"
  /\ raised' = TRUE
  /\ UNCHANGED errorAt

\* await click({ uid }); await delay(d) -- one click of the item path; the
\* last click of a path (counts = TRUE) is followed by deletedCount++, the
\* progress log and the rate-limit delay
Click(at, step, next, d, counts) ==
  /\ script \in ContentScripts
  /\ pc = at
  /\ lastClick' = [uid |-> handle.uid, sid |-> handle.sid, at |-> snapId]
  /\ \E ok \in outcomes(at) :
       IF ok
       THEN /\ did' = did \cup {step}
            /\ UNCHANGED <<raised, errorAt>>
            /\ IF counts
               THEN /\ pc' = "endScroll"
                    /\ deletedCount' = deletedCount + 1
                    /\ completed' = completed + 1
                    /\ logLine' = progressLog(deletedCount + 1)
                    /\ waited' = d + cfg.rateLimitSafe
               ELSE /\ pc' = next
                    /\ waited' = d
                    /\ logLine' = -1
                    /\ UNCHANGED <<deletedCount, completed>>
       ELSE /\ Catch
            /\ waited' = 0 /\ logLine' = -1
            /\ UNCHANGED <<did, deletedCount, completed>>
  /\ UNCHANGED <<script, snapshot, tweet, handle, snapId,
                 consecutiveEmptyAttempts, totalFailed, nodes, idx, scrolled,
                 scanHist, missed, nonActionable, dispatched, selected>>
  /\ Await
  /\ Measure
  /\ UNCHANGED <<allVars, followerVars, callVars, host, popupVars,
                 logVars>>

\* variant: no pause after the More click
ClickMoreNoPause == Click("clickMore", "more", "menuSnap", 0, FALSE)

\* line 250 / 1286
ClickMore == Click("clickMore", "more", "menuSnap", cfg.betweenClicks, FALSE)

\* line 263 / 1299
ClickDelete ==
  Click("clickDelete", "delete",
        IF script \in PlaywrightScripts THEN "sheetSnap" ELSE "dialog",
        cfg.betweenClicks, FALSE)

\* line 1307: click the confirmation button found in confirmSnapshot
ClickSheet == Click("clickSheet", "confirm", "endScroll", cfg.afterDeletion, TRUE)

\* line 228 / 1264
ClickUnretweet ==
  Click("clickUnretweet", "undo", "undoSnap", cfg.betweenClicks, FALSE)

\* line 235 / 1271
ClickUndoConfirm ==
  Click("clickUndoConfirm", "undoConfirm", "endScroll", cfg.afterDeletion, TRUE)

\* A snapshot taken inside the item path and the lookup made in it.  When
\* the control is missing the path ends: by continue (skip = TRUE), by
\* falling through to the progress log (skip = FALSE), and in the playwright
\* confirmation step by counting the item anyway (countMiss = TRUE).
lookup(what, page) ==
  CASE what = "delete" -> findDeleteButton(script, page)
    [] what = "confirm" -> findConfirmButton(script, page)
    [] what = "undoConfirm" -> findUnretweetConfirmButton(script, page)

ItemSnap(at, what, next, skip, countMiss) ==
  /\ script \in ContentScripts
  /\ pc = at
  /\ \E ok \in BOOLEAN, page \in Pages :
       IF ~ok
       THEN /\ Catch
            /\ waited' = 0 /\ logLine' = -1
            /\ UNCHANGED <<snapshot, tweet, handle, snapId, deletedCount,
                           missed, did, nonActionable, dispatched>>
       ELSE /\ snapId' = nextSnap
            /\ IF Throws(page)
               THEN /\ Catch
                    /\ waited' = 0 /\ logLine' = -1
                    /\ UNCHANGED <<snapshot, tweet, handle, deletedCount,
                                   missed, did, nonActionable, dispatched>>
               ELSE /\ UNCHANGED <<raised, errorAt>>
                    /\ IF lookup(what, page) # NoHandle
                       THEN /\ pc' = next
                            /\ handle' = Ref(lookup(what, page), nextSnap)
                            /\ waited' = 0 /\ logLine' = -1
                            /\ UNCHANGED <<snapshot, tweet, deletedCount,
                                           missed, did, nonActionable,
                                           dispatched>>
                       ELSE /\ missed' = TRUE
                            /\ IF skip
                               THEN /\ LoopAgain
                                    /\ waited' = 0 /\ logLine' = -1
                                    /\ UNCHANGED deletedCount
                               ELSE /\ pc' = "endScroll"
                                    /\ deletedCount' =
                                         IF countMiss THEN deletedCount + 1
                                         ELSE deletedCount
                                    /\ logLine' = progressLog(deletedCount')
                                    /\ waited' = cfg.rateLimitSafe
                                    /\ UNCHANGED <<snapshot, tweet, handle, did,
                                                   nonActionable, dispatched>>
  /\ UNCHANGED <<script, consecutiveEmptyAttempts, totalFailed, nodes, idx,
                 scrolled, scanHist, completed, lastClick, selected>>
  /\ Await
  /\ Measure
  /\ UNCHANGED <<allVars, followerVars, callVars, host, popupVars,
                 logVars>>

\* variant: the delete control is looked up in the scan snapshot instead of
\* the menu snapshot that was just captured
MenuSnapStale ==
  /\ script \in ContentScripts
  /\ pc = "menuSnap"
  /\ snapId' = nextSnap
  /\ IF Throws(snapshot) \/ findDeleteButton(script, snapshot) = NoHandle
     THEN /\ LoopAgain
          /\ missed' = TRUE
     ELSE /\ pc' = "clickDelete"
          /\ handle' = Ref(findDeleteButton(script, snapshot), handle.sid)
          /\ UNCHANGED <<snapshot, tweet, missed, did, nonActionable,
                         dispatched>>
  /\ waited' = 0 /\ logLine' = -1
  /\ UNCHANGED <<script, deletedCount, consecutiveEmptyAttempts, totalFailed,
                 nodes, idx, scrolled, scanHist, raised, completed, lastClick,
                 selected, errorAt>>
  /\ Await
  /\ Measure
  /\ UNCHANGED <<allVars, followerVars, callVars, host, popupVars,
                 logVars>>

\* variant: an item whose menu holds no delete control is counted
MenuSnapCounted == ItemSnap("menuSnap", "delete", "clickDelete", FALSE, TRUE)

\* lines 254-261: menuSnapshot and findDeleteButton
MenuSnap == ItemSnap("menuSnap", "delete", "clickDelete", TRUE, FALSE)

\* lines 1303-1311: confirmSnapshot and findConfirmButton (playwright)
SheetSnap == ItemSnap("sheetSnap", "confirm", "clickSheet", FALSE, TRUE)

\* lines 232-239: confirmSnapshot and findUnretweetConfirmButton
UndoSnap == ItemSnap("undoSnap", "undoConfirm", "clickUndoConfirm", FALSE, FALSE)

\* variant: after the confirmation the loop takes the next scan at once
DialogNoPace ==
  /\ script \in DevtoolsScripts
  /\ pc = "dialog"
  /\ LoopAgain
  /\ deletedCount' = deletedCount + 1
  /\ completed' = completed + 1
  /\ logLine' = progressLog(deletedCount + 1)
  /\ waited' = 0
  /\ UNCHANGED <<script, snapId, consecutiveEmptyAttempts, totalFailed,
                 nodes, idx, scrolled, scanHist, raised, missed, lastClick,
                 selected, errorAt>>
  /\ Await
  /\ Measure
  /\ UNCHANGED <<allVars, followerVars, callVars, host, popupVars,
                 logVars>>

\* lines 267-270: handle_dialog({ action: 'accept' }) (devtools)
Dialog ==
  /\ script \in DevtoolsScripts
  /\ pc = "dialog"
  /\ \E ok \in outcomes("dialog") :
       IF ok
       THEN /\ pc' = "endScroll"
            /\ did' = did \cup {"confirm"}
            /\ deletedCount' = deletedCount + 1
            /\ completed' = completed + 1
            /\ logLine' = progressLog(deletedCount + 1)
            /\ waited' = cfg.afterDeletion + cfg.rateLimitSafe
            /\ UNCHANGED <<raised, errorAt>>
       ELSE /\ Catch
            /\ waited' = 0 /\ logLine' = -1
            /\ UNCHANGED <<did, deletedCount, completed>>
  /\ UNCHANGED <<script, snapshot, tweet, handle, snapId,
                 consecutiveEmptyAttempts, totalFailed, nodes, idx, scrolled,
                 scanHist, missed, lastClick, nonActionable, dispatched,
                 selected>>
  /\ Await
  /\ Measure
  /\ UNCHANGED <<allVars, followerVars, callVars, host, popupVars,
                 logVars>>

\* variant: the loop is left after a failed item
CatchScrollExit ==
  /\ script \in ContentScripts
  /\ pc = "catchScroll"
  /\ pc' = "done"
  /\ scrolled' = 150
  /\ waited' = cfg.scrollLoad
  /\ logLine' = -1
  /\ UNCHANGED <<script, snapshot, tweet, handle, snapId, deletedCount,
                 consecutiveEmptyAttempts, totalFailed, nodes, idx,
                 scanHist, raised, missed, completed, did, lastClick,
                 nonActionable, dispatched, selected, errorAt>>
  /\ Await
  /\ Measure
  /\ UNCHANGED <<allVars, followerVars, callVars, host, popupVars,
                 logVars>>

\* lines 286-289: the scroll inside the catch handler
CatchScroll ==
  /\ script \in ContentScripts
  /\ pc = "catchScroll"
  /\ \E ok \in BOOLEAN :
       IF ok
       THEN /\ pc' = "endScroll"
            /\ scrolled' = 150
            /\ waited' = cfg.scrollLoad
            /\ UNCHANGED <<raised, errorAt>>
       ELSE /\ Propagate("catch")
            /\ waited' = 0
            /\ UNCHANGED scrolled
  /\ logLine' = -1
  /\ UNCHANGED <<script, snapshot, tweet, handle, snapId, deletedCount,
                 consecutiveEmptyAttempts, totalFailed, nodes, idx,
                 scanHist, missed, completed, did, lastClick,
                 nonActionable, dispatched, selected>>
  /\ Await
  /\ Measure
  /\ UNCHANGED <<allVars, followerVars, callVars, host, popupVars,
                 logVars>>

\* lines 293-296: the scroll that ends every iteration
EndScroll ==
  /\ script \in ContentScripts
  /\ pc = "endScroll"
  /\ \E ok \in BOOLEAN :
       IF ok
       THEN /\ LoopAgain
            /\ scrolled' = cfg.scrollAmount
            /\ waited' = cfg.scrollLoad
            /\ UNCHANGED <<raised, errorAt>>
       ELSE /\ Propagate("endScroll")
            /\ waited' = 0
            /\ UNCHANGED <<scrolled, snapshot, tweet, handle, did,
                           nonActionable, dispatched>>
  /\ logLine' = -1
  /\ UNCHANGED <<script, snapId, deletedCount, consecutiveEmptyAttempts,
                 totalFailed, nodes, idx, scanHist, missed, completed,
                 lastClick, selected>>
  /\ Await
  /\ Measure
  /\ UNCHANGED <<allVars, followerVars, callVars, host, popupVars,
                 logVars>>

DeleteContentNext ==
  \/ Start \/ Scan \/ EmptyScroll
  \/ ClickMore \/ MenuSnap \/ ClickDelete \/ Dialog \/ SheetSnap \/ ClickSheet
  \/ ClickUnretweet \/ UndoSnap \/ ClickUndoConfirm
  \/ CatchScroll \/ EndScroll

\* ------------------------------------------------------- deleteAllContent
InitAll ==
  /\ script \in ContentScripts
  /\ pc = "start"
  /\ snapshot = NullSnap
  /\ tweet = NoTweet
  /\ handle = NoRef
  /\ snapId = 0
  /\ deletedCount = 0
  /\ consecutiveEmptyAttempts = 0
  /\ totalFailed = 0
  /\ nodes = 0
  /\ idx = 0
  /\ waited = 0
  /\ scrolled = 0
  /\ logLine = -1
  /\ scanHist = <<>>
  /\ raised = FALSE
  /\ missed = FALSE
  /\ completed = 0
  /\ did = {}
  /\ lastClick = NoClick
  /\ nonActionable = FALSE
  /\ dispatched = {}
  /\ selected = 0
  /\ errorAt = "none"
  /\ InitAllContent("deleteAllContent")
  /\ InitPace
  /\ InitFollowerVars
  /\ InitPopup
  /\ InitHost
  /\ InitCall

\* variant: the counters of the previous call are carried into the next
NewCallKeepCounters ==
  /\ pc' = "start"
  /\ UNCHANGED <<deletedCount, consecutiveEmptyAttempts>>
  /\ snapshot' = NullSnap
  /\ tweet' = NoTweet
  /\ handle' = NoRef
  /\ snapId' = 0
  /\ waited' = 0
  /\ logLine' = -1
  /\ scanHist' = <<>>
  /\ raised' = FALSE
  /\ missed' = FALSE
  /\ completed' = 0
  /\ did' = {}
  /\ lastClick' = NoClick
  /\ nonActionable' = FALSE
  /\ dispatched' = {}
  /\ selected' = 0
  /\ sinceConfirm' = -1

\* a call of deleteContent begins: its local variables (lines 181-184) and
\* the history kept of one call
NewCall ==
  /\ pc' = "start"
  /\ deletedCount' = 0
  /\ consecutiveEmptyAttempts' = 0
  /\ snapshot' = NullSnap
  /\ tweet' = NoTweet
  /\ handle' = NoRef
  /\ snapId' = 0
  /\ waited' = 0
  /\ logLine' = -1
  /\ scanHist' = <<>>
  /\ raised' = FALSE
  /\ missed' = FALSE
  /\ completed' = 0
  /\ did' = {}
  /\ lastClick' = NoClick
  /\ nonActionable' = FALSE
  /\ dispatched' = {}
  /\ selected' = 0
  /\ sinceConfirm' = -1

\* lines 322-326: summary.posts = await deleteContent(.., 'POSTS'), then the
\* call deleteContent(.., 'REPLIES')
ReturnPosts ==
  /\ caller = "deleteAllContent"
  /\ contentType = "POSTS"
  /\ pc = "done"
  /\ summary' = [summary EXCEPT !.posts = deletedCount]
  /\ returned' = Append(returned, "POSTS")
  /\ contentType' = "REPLIES"
  /\ NewCall
  /\ UNCHANGED <<script, totalFailed, nodes, idx, scrolled, errorAt, caller,
                 pending, inflight, followerVars, callVars, host, popupVars,
                 logVars>>

\* variant: the total is the count of the last run only
ReturnRepliesLastOnly ==
  /\ caller = "deleteAllContent"
  /\ contentType = "REPLIES"
  /\ pc = "done"
  /\ summary' = [summary EXCEPT !.replies = deletedCount,
                                !.total = deletedCount]
  /\ returned' = Append(returned, "REPLIES")
  /\ pc' = "allDone"
  /\ UNCHANGED <<script, snapshot, tweet, handle, snapId, deletedCount,
                 consecutiveEmptyAttempts, totalFailed, nodes, idx, obsVars,
                 histVars, caller, contentType, paceVars, followerVars,
                 callVars, host, popupVars,
                 logVars>>

\* lines 326-335: summary.replies, summary.total and the return
ReturnReplies ==
  /\ caller = "deleteAllContent"
  /\ contentType = "REPLIES"
  /\ pc = "done"
  /\ summary' = [summary EXCEPT !.replies = deletedCount,
                                !.total = summary.posts + deletedCount]
  /\ returned' = Append(returned, "REPLIES")
  /\ pc' = "allDone"
  /\ UNCHANGED <<script, snapshot, tweet, handle, snapId, deletedCount,
                 consecutiveEmptyAttempts, totalFailed, nodes, idx, obsVars,
                 histVars, caller, contentType, paceVars, followerVars,
                 callVars, host, popupVars,
                 logVars>>

NextAll == DeleteContentNext \/ ReturnPosts \/ ReturnReplies

SpecAll == InitAll /\ [][NextAll]_vars

\* ------------------------------------------------ deleteContent, stuck item
\* One call of deleteContent on a feed whose first item can never be
\* removed: its delete click and its confirmations always raise, and the
\* page is free to show it without a More control, without a delete entry
\* in its menu or as a repost without an undo control.  The event loop
\* resumes every settled await, so the function always takes its next step.
InitStuck ==
  /\ script \in ContentScripts
  /\ pc = "start"
  /\ snapshot = NullSnap
  /\ tweet = NoTweet
  /\ handle = NoRef
  /\ snapId = 0
  /\ deletedCount = 0
  /\ consecutiveEmptyAttempts = 0
  /\ totalFailed = 0
  /\ nodes = 0
  /\ idx = 0
  /\ waited = 0
  /\ scrolled = 0
  /\ logLine = -1
  /\ scanHist = <<>>
  /\ raised = FALSE
  /\ missed = FALSE
  /\ completed = 0
  /\ did = {}
  /\ lastClick = NoClick
  /\ nonActionable = FALSE
  /\ dispatched = {}
  /\ selected = 0
  /\ errorAt = "none"
  /\ InitAllContent("direct")
  /\ InitPace
  /\ InitFollowerVars
  /\ InitPopup
  /\ host = "stuck"
  /\ InitCall

NextStuck ==
  \/ Start \/ Scan \/ EmptyScroll
  \/ ClickMore \/ MenuSnap \/ ClickDelete
  \/ ClickUnretweet \/ UndoSnap \/ ClickUndoConfirm
  \/ CatchScroll \/ EndScroll

SpecStuck == InitStuck /\ [][NextStuck]_vars /\ WF_vars(NextStuck)

\* ----------------------------------------------------------- console loops
\* variant: a failed removal is not counted
ResultUncounted(success) ==
  /\ pc' = "c_pace"
  /\ logLine' = -1
  /\ IF success
     THEN /\ deletedCount' = deletedCount + 1
          /\ UNCHANGED totalFailed
     ELSE UNCHANGED <<deletedCount, totalFailed>>

\* deleteTweet returned: the accounting of the main loop up to its next await
\* (lines 971-990 and 1571-1582)
Result(success) ==
  /\ pc' = "c_pace"
  /\ IF success
     THEN /\ deletedCount' = deletedCount + 1
          /\ logLine' = progressLog(deletedCount + 1)
          /\ UNCHANGED totalFailed
     ELSE /\ totalFailed' = totalFailed + 1
          /\ logLine' = -1
          /\ UNCHANGED deletedCount

\* while (true) { const tweets = document.querySelectorAll(...); ... }
ConsoleScan ==
  /\ script \in ConsoleScripts
  /\ pc = "c_scan"
  /\ Len(scanHist) < MaxConsoleScans
  /\ \E n \in 0..MaxTweets :
       /\ scanHist' = Append(scanHist, n = 0)
       /\ IF n = 0
          THEN /\ consecutiveEmptyAttempts' = consecutiveEmptyAttempts + 1
               /\ IF consecutiveEmptyAttempts + 1 >= consoleMaxEmptyAttempts
                  THEN /\ pc' = "c_done"
                       /\ UNCHANGED <<scrolled, waited>>
                  ELSE /\ pc' = "c_scan"
                       /\ scrolled' = cfg.scrollAmount
                       /\ waited' = cfg.scrollLoad
               /\ UNCHANGED <<nodes, idx, dispatched, selected>>
          ELSE /\ consecutiveEmptyAttempts' = 0
               /\ nodes' = n
               /\ idx' = 1
               /\ dispatched' = {1}
               /\ selected' = selected + 1
               /\ pc' = "c_delete"
               /\ waited' = 0
               /\ UNCHANGED scrolled
  /\ logLine' = -1
  /\ UNCHANGED <<script, snapshot, tweet, handle, snapId, deletedCount,
                 totalFailed, raised, missed, completed, did, lastClick,
                 nonActionable, errorAt>>
  /\ UNCHANGED <<allVars, paceVars, followerVars, callVars, host, popupVars,
                 logVars>>

\* click More and wait (lines 900-906), the tail of the repost branch too
OpenMenu(hasCaret) ==
  IF hasCaret
  THEN /\ pc' = "c_menu"
       /\ did' = did \cup {"more"}
       /\ waited' = cfg.betweenClicks
       /\ logLine' = -1
       /\ UNCHANGED <<deletedCount, totalFailed, missed>>
  ELSE /\ Result(FALSE)
       /\ missed' = TRUE
       /\ waited' = 0
       /\ UNCHANGED did

\* deleteTweet(tweet), lines 878-906: the repost check and the More click
DeleteTweet ==
  /\ script \in ConsoleScripts
  /\ pc = "c_delete"
  /\ \E throws \in BOOLEAN, hasUnretweet \in BOOLEAN, hasCaret \in BOOLEAN :
       IF throws
       THEN /\ Result(FALSE)
            /\ raised' = TRUE
            /\ waited' = 0
            /\ UNCHANGED <<did, missed>>
       ELSE /\ UNCHANGED raised
            /\ IF hasUnretweet
               THEN /\ pc' = "c_undoConfirm"
                    /\ did' = did \cup {"undo"}
                    /\ waited' = cfg.betweenClicks
                    /\ logLine' = -1
                    /\ UNCHANGED <<deletedCount, totalFailed, missed>>
               ELSE OpenMenu(hasCaret)
  /\ UNCHANGED <<script, snapshot, tweet, handle, snapId,
                 consecutiveEmptyAttempts, nodes, idx, scrolled, scanHist,
                 completed, lastClick, nonActionable, dispatched, selected,
                 errorAt>>
  /\ UNCHANGED <<allVars, paceVars, followerVars, callVars, host, popupVars,
                 logVars>>

\* lines 888-906: the unretweet confirmation; without it the function falls
\* through to the regular deletion of the same node
UndoConfirm ==
  /\ script \in ConsoleScripts
  /\ pc = "c_undoConfirm"
  /\ \E throws \in BOOLEAN, hasConfirm \in BOOLEAN, hasCaret \in BOOLEAN :
       IF throws
       THEN /\ Result(FALSE)
            /\ raised' = TRUE
            /\ waited' = 0
            /\ UNCHANGED <<did, missed, completed>>
       ELSE /\ UNCHANGED raised
            /\ IF hasConfirm
               THEN /\ Result(TRUE)
                    /\ did' = did \cup {"undoConfirm"}
                    /\ completed' = completed + 1
                    /\ waited' = cfg.afterDeletion
                    /\ UNCHANGED missed
               ELSE /\ OpenMenu(hasCaret)
                    /\ UNCHANGED completed
  /\ UNCHANGED <<script, snapshot, tweet, handle, snapId,
                 consecutiveEmptyAttempts, nodes, idx, scrolled, scanHist,
                 lastClick, nonActionable, dispatched, selected, errorAt>>
  /\ UNCHANGED <<allVars, paceVars, followerVars, callVars, host, popupVars,
                 logVars>>

\* lines 908-924: the Delete entry of the open menu
Menu ==
  /\ script \in ConsoleScripts
  /\ pc = "c_menu"
  /\ \E throws \in BOOLEAN, hasDelete \in BOOLEAN :
       IF throws
       THEN /\ Result(FALSE)
            /\ raised' = TRUE
            /\ waited' = 0
            /\ UNCHANGED <<did, missed>>
       ELSE /\ UNCHANGED raised
            /\ IF hasDelete
               THEN /\ pc' = "c_sheet"
                    /\ did' = did \cup {"delete"}
                    /\ waited' = cfg.betweenClicks
                    /\ logLine' = -1
                    /\ UNCHANGED <<deletedCount, totalFailed, missed>>
               ELSE /\ Result(FALSE)
                    /\ did' = did \cup {"dismiss"}
                    /\ missed' = TRUE
                    /\ waited' = IF script = "consoleOpt" THEN 50 ELSE 0
  /\ UNCHANGED <<script, snapshot, tweet, handle, snapId,
                 consecutiveEmptyAttempts, nodes, idx, scrolled, scanHist,
                 completed, lastClick, nonActionable, dispatched, selected,
                 errorAt>>
  /\ UNCHANGED <<allVars, paceVars, followerVars, callVars, host, popupVars,
                 logVars>>

\* lines 926-937: the confirmation sheet
Sheet ==
  /\ script \in ConsoleScripts
  /\ pc = "c_sheet"
  /\ \E throws \in BOOLEAN, hasConfirm \in BOOLEAN :
       IF throws
       THEN /\ Result(FALSE)
            /\ raised' = TRUE
            /\ waited' = 0
            /\ UNCHANGED <<did, missed, completed>>
       ELSE /\ UNCHANGED raised
            /\ IF hasConfirm
               THEN /\ Result(TRUE)
                    /\ did' = did \cup {"confirm"}
                    /\ completed' = completed + 1
                    /\ waited' = cfg.afterDeletion
                    /\ UNCHANGED missed
               ELSE /\ Result(FALSE)
                    /\ missed' = TRUE
                    /\ waited' = 0
                    /\ UNCHANGED <<did, completed>>
  /\ UNCHANGED <<script, snapshot, tweet, handle, snapId,
                 consecutiveEmptyAttempts, nodes, idx, scrolled, scanHist,
                 lastClick, nonActionable, dispatched, selected, errorAt>>
  /\ UNCHANGED <<allVars, paceVars, followerVars, callVars, host, popupVars,
                 logVars>>

\* variant: every console loop walks the whole NodeList
nextNodeAny(contains) == ~contains /\ idx < nodes

\* the loop goes on with the next node of the same NodeList
nextNode(contains) == script = "consoleOpt" /\ ~contains /\ idx < nodes

\* lines 989-994 and 1582-1590: the pacing delay, then either the next node
\* of the same scan (optimized loop, node gone from the document) or the
\* scroll that precedes the next scan
Pace ==
  /\ script \in ConsoleScripts
  /\ pc = "c_pace"
  /\ \E contains \in BOOLEAN :
       IF nextNode(contains)
       THEN /\ pc' = "c_delete"
            /\ idx' = idx + 1
            /\ dispatched' = dispatched \cup {idx + 1}
            /\ selected' = selected + 1
            /\ did' = {}
            /\ waited' = cfg.rateLimitSafe
            /\ UNCHANGED <<nodes, scrolled>>
       ELSE /\ pc' = "c_scan"
            /\ nodes' = 0
            /\ idx' = 0
            /\ dispatched' = {}
            /\ did' = {}
            /\ scrolled' = cfg.scrollAmount
            /\ waited' = cfg.scrollLoad
            /\ UNCHANGED selected
  /\ logLine' = -1
  /\ UNCHANGED <<script, snapshot, tweet, handle, snapId, deletedCount,
                 consecutiveEmptyAttempts, totalFailed, scanHist, raised,
                 missed, completed, lastClick, nonActionable, errorAt>>
  /\ UNCHANGED <<allVars, paceVars, followerVars, callVars, host, popupVars,
                 logVars>>

ConsoleNext ==
  \/ ConsoleScan \/ DeleteTweet \/ UndoConfirm \/ Menu \/ Sheet \/ Pace

Next == DeleteContentNext \/ ConsoleNext

Spec == Init /\ [][Next]_vars

\* ------------------------------------- remove-inactive-followers.js
FCONFIG ==
  [inactiveDays |-> 180, profileLoad |-> 2000, betweenClicks |-> 500,
   afterAction |-> 1000, scrollLoad |-> 2000, betweenFollowers |-> 1000,
   maxEmptyAttempts |-> 3, scrollAmount |-> 300]

\* the popup follower script, lines 20-31: its CONFIG
PCONFIG ==
  [inactiveDays |-> 180, popupLoad |-> 4000, betweenClicks |-> 1000,
   afterAction |-> 3000, scrollLoad |-> 3000, betweenFollowers |-> 6000,
   maxEmptyAttempts |-> 3, scrollAmount |-> 300]

\* the two follower scripts: block and unblock, and the profile popup
FollowerScripts == {"followers", "followersPopup"}

\* the CONFIG of the script that runs
fcfg == IF script = "followersPopup" THEN PCONFIG ELSE FCONFIG

\* usernames of the follower cells the page may show
Users == {"ann", "bob"}

\* what getFollowerElements may return: the cells of the page, in page order
FollowerLists ==
  {<<>>} \cup {<<u>> : u \in Users}
         \cup {<<p[1], p[2]>> : p \in {q \in Users \X Users : q[1] # q[2]}}

\* age in days of the latest tweet a profile may show
Ages == {0, 180, 181, 400}

\* A Date value as `now - lastTweetDate` sees it: the whole days and the
\* remaining milliseconds (0 .. msPerDay - 1) between its instant and now;
\* a negative day count is an instant in the future.
msPerDay == 1000 * 60 * 60 * 24

DateOf(days, ms) == [days |-> days, ms |-> ms]

\* null or undefined: no date was read
NoDate == [days |-> 0, ms |-> -1]

\* new Date(text) of a text that is no date: its time value is NaN
InvalidDate == [days |-> 0, ms |-> -2]

\* the comparison taken as "at least inactiveDays"
isInactiveAtLeast(lastTweetDate) ==
  IF lastTweetDate = NoDate THEN FALSE
  ELSE IF lastTweetDate = InvalidDate THEN FALSE
  ELSE lastTweetDate.days >= FCONFIG.inactiveDays

\* isInactive(lastTweetDate): diffMs / msPerDay > CONFIG.inactiveDays, the
\* quotient compared by its whole and fractional parts; a Date object is
\* truthy, and NaN compares false
isInactive(lastTweetDate) ==
  IF lastTweetDate = NoDate THEN FALSE
  ELSE IF lastTweetDate = InvalidDate THEN FALSE
  ELSE \/ lastTweetDate.days > FCONFIG.inactiveDays
       \/ /\ lastTweetDate.days = FCONFIG.inactiveDays
          /\ lastTweetDate.ms > 0

\* the results of checkUserActivity
Dated(age) == [kind |-> "date", age |-> age]

Undated(reason) == [kind |-> reason, age |-> -1]

Activities ==
  {Dated(a) : a \in Ages}
    \cup {Undated(r) : r \in {"no_tweets_visible", "no_timestamp",
                              "parse_error", "protected_account", "error"}}

\* activity.inactive: undefined unless a datetime was read
inactiveOf(act) == act.kind = "date" /\ isInactive(DateOf(act.age, 0))

\* What the first article of the document carries instead of an age: no
\* <time> element, or a <time> element without a datetime attribute.
NoTimeElement == -1

NoDatetime == -2

\* The document at the time checkUserActivity reads it: whether the
\* navigation reached /<username> (lines 142-149 stop waiting after five
\* polls either way), and the article[data-testid="tweet"] elements in
\* document order, each with the age in days of its <time datetime>.
\* Document order is the page's: a pinned post or a repost stands first
\* with an older date than the posts below it.
Profiles ==
  LET times == Ages \cup {NoTimeElement, NoDatetime}
  IN {[landed |-> l, tweets |-> t] :
        l \in BOOLEAN,
        t \in {<<>>} \cup {<<a>> : a \in times}
                     \cup {<<a, b>> : a \in times, b \in Ages}}

\* lines 151-179: the value checkUserActivity returns for the document p
checkUserActivity(p) ==
  IF p.tweets = <<>> THEN Undated("no_tweets_visible")
  ELSE IF p.tweets[1] = NoTimeElement THEN Undated("no_timestamp")
  ELSE IF p.tweets[1] = NoDatetime THEN Undated("parse_error")
  ELSE Dated(p.tweets[1])

deletionVars ==
  <<snapshot, tweet, handle, snapId, deletedCount, nodes, idx, completed,
    did, lastClick, nonActionable, dispatched, selected, errorAt>>

InitFollowers ==
  /\ script \in FollowerScripts
  /\ pc = "f_start"
  /\ snapshot = NullSnap
  /\ tweet = NoTweet
  /\ handle = NoRef
  /\ snapId = 0
  /\ deletedCount = 0
  /\ consecutiveEmptyAttempts = 0
  /\ totalFailed = 0
  /\ nodes = 0
  /\ idx = 0
  /\ waited = 0
  /\ scrolled = 0
  /\ logLine = -1
  /\ scanHist = <<>>
  /\ raised = FALSE
  /\ missed = FALSE
  /\ completed = 0
  /\ did = {}
  /\ lastClick = NoClick
  /\ nonActionable = FALSE
  /\ dispatched = {}
  /\ selected = 0
  /\ errorAt = "none"
  /\ InitAllContent("direct")
  /\ InitPace
  /\ InitFollowerVars
  /\ InitPopup
  /\ InitHost
  /\ InitCall

\* lines 259-265 (popup script 197-203): the script only runs on a
\* followers page
FollowerStart ==
  /\ script \in FollowerScripts
  /\ pc = "f_start"
  /\ \E onFollowersPage \in BOOLEAN :
       pc' = IF onFollowersPage THEN "f_scan" ELSE "f_notFollowers"
  /\ UNCHANGED <<script, consecutiveEmptyAttempts, totalFailed, obsVars,
                 scanHist, raised, missed, deletionVars, allVars, paceVars,
                 followerVars, callVars, host, popupVars,
                 logVars>>

\* lines 339-347 and 360: back to the followers list, the progress line
\* every 10 checks and the pause between followers
BackToList ==
  /\ pc' = "f_scan"
  /\ profile' = NoProfile
  /\ logLine' = IF totalChecked % 10 = 0 THEN totalChecked ELSE -1
  /\ waited' = FCONFIG.profileLoad + FCONFIG.betweenFollowers
  /\ paused' = TRUE

\* lines 349-360: the catch handler of the iteration
FollowerCatch ==
  /\ pc' = "f_scan"
  /\ profile' = NoProfile
  /\ totalFailed' = totalFailed + 1
  /\ raised' = TRUE
  /\ logLine' = -1
  /\ waited' = FCONFIG.profileLoad + FCONFIG.betweenFollowers
  /\ paused' = TRUE

\* the set left as it was
processedForgotten(processed, username) == processed

\* line 297 (popup script 235): processedUsernames.add(follower.username)
processedAfter(processed, username) == processed \cup {username}

\* consecutiveEmpty never reset
emptyKept(consecutiveEmpty, empty) ==
  IF empty THEN consecutiveEmpty + 1 ELSE consecutiveEmpty

\* lines 278-293 (popup script 216-231): consecutiveEmpty after a scan
emptyAfter(consecutiveEmpty, empty) ==
  IF empty THEN consecutiveEmpty + 1 ELSE 0

\* lines 272-300 (popup script 210-240): one scan of the list and the
\* choice of the next follower
FollowerScan ==
  /\ script \in FollowerScripts
  /\ pc = "f_scan"
  /\ Len(scanHist) < MaxFollowerScans
  /\ \E followers \in FollowerLists :
       LET isNew(u) == u \notin processedUsernames
           newFollowers == SelectSeq(followers, isNew)
       IN /\ scanHist' = Append(scanHist, newFollowers = <<>>)
          /\ consecutiveEmptyAttempts' =
               emptyAfter(consecutiveEmptyAttempts, newFollowers = <<>>)
          /\ IF newFollowers = <<>>
             THEN /\ IF consecutiveEmptyAttempts + 1 >= fcfg.maxEmptyAttempts
                     THEN /\ pc' = "f_done"
                          /\ UNCHANGED <<scrolled, waited>>
                     ELSE /\ pc' = "f_scan"
                          /\ scrolled' = fcfg.scrollAmount
                          /\ waited' = fcfg.scrollLoad
                  /\ UNCHANGED <<processedUsernames, follower, totalChecked,
                                 popup, paused, checkLog>>
             ELSE /\ follower' = newFollowers[1]
                  /\ processedUsernames' =
                       processedAfter(processedUsernames, newFollowers[1])
                  /\ totalChecked' = totalChecked + 1
                  /\ checkLog' = Append(checkLog, newFollowers[1])
                  /\ paused' = FALSE
                  /\ popup' = "null"
                  /\ pc' = IF script = "followersPopup"
                           THEN "p_open" ELSE "f_check"
                  /\ waited' = 0
                  /\ UNCHANGED scrolled
  /\ logLine' = -1
  /\ activity' = NoActivity
  /\ UNCHANGED <<script, totalFailed, raised, missed, deletionVars, allVars,
                 callVars, host, paceVars, totalRemoved, totalSkipped, blocked,
                 profile, openPopups, attempt, readyState, removeLog>>

\* lines 304-306 and 329-336: checkUserActivity and the branch on its result
CheckUserActivity ==
  /\ script = "followers"
  /\ pc = "f_check"
  /\ \E throws \in BOOLEAN, p \in Profiles :
       IF throws
       THEN /\ FollowerCatch
            /\ UNCHANGED <<activity, totalSkipped>>
       ELSE /\ activity' = checkUserActivity(p)
            /\ UNCHANGED <<raised, totalFailed>>
            /\ IF inactiveOf(checkUserActivity(p))
               THEN /\ pc' = "f_block"
                    /\ profile' = p
                    /\ waited' = FCONFIG.profileLoad
                                  + (IF p.landed THEN 0 ELSE 5 * 500)
                    /\ logLine' = -1
                    /\ UNCHANGED <<totalSkipped, paused>>
               ELSE /\ totalSkipped' = totalSkipped + 1
                    /\ BackToList
  /\ UNCHANGED <<script, consecutiveEmptyAttempts, scrolled, scanHist,
                 missed, deletionVars, allVars, callVars, host, paceVars,
                 processedUsernames, follower, totalChecked, totalRemoved,
                 blocked, popupVars, checkLog, removeLog>>

\* lines 182-220 and 310-328: blockUser and the branch on its result
BlockUser ==
  /\ script = "followers"
  /\ pc = "f_block"
  /\ removeLog' = Append(removeLog, follower)
  /\ \E throws \in BOOLEAN, moreButton \in BOOLEAN, blockButton \in BOOLEAN,
        confirmButton \in BOOLEAN :
       IF throws
       THEN /\ FollowerCatch
            /\ UNCHANGED <<missed, blocked>>
       ELSE IF moreButton /\ blockButton /\ confirmButton
       THEN /\ blocked' = blocked \cup {follower}
            /\ pc' = "f_unblock"
            /\ UNCHANGED profile
            /\ waited' = FCONFIG.afterAction
            /\ logLine' = -1
            /\ UNCHANGED <<raised, missed, totalFailed, paused>>
       ELSE /\ totalFailed' = totalFailed + 1
            /\ missed' = TRUE
            /\ BackToList
            /\ UNCHANGED <<raised, blocked>>
  /\ UNCHANGED <<script, consecutiveEmptyAttempts, scrolled, scanHist,
                 deletionVars, allVars, callVars, host, paceVars,
                 processedUsernames, follower, activity, totalChecked,
                 totalRemoved, totalSkipped, popupVars, checkLog>>

\* lines 222-256 and 313-323: unblockUser and the branch on its result
UnblockUser ==
  /\ script = "followers"
  /\ pc = "f_unblock"
  /\ \E throws \in BOOLEAN, blockedButton \in BOOLEAN,
        confirmButton \in BOOLEAN, moreButton \in BOOLEAN,
        unblockItem \in BOOLEAN :
       IF throws
       THEN /\ FollowerCatch
            /\ UNCHANGED <<missed, blocked, totalRemoved>>
       ELSE IF (blockedButton /\ confirmButton) \/ (moreButton /\ unblockItem)
       THEN /\ blocked' = blocked \ {follower}
            /\ totalRemoved' = totalRemoved + 1
            /\ BackToList
            /\ UNCHANGED <<raised, missed, totalFailed>>
       ELSE /\ totalFailed' = totalFailed + 1
            /\ missed' = TRUE
            /\ BackToList
            /\ UNCHANGED <<raised, blocked, totalRemoved>>
  /\ UNCHANGED <<script, consecutiveEmptyAttempts, scrolled, scanHist,
                 deletionVars, allVars, callVars, host, paceVars,
                 processedUsernames, follower, activity, totalChecked,
                 totalSkipped, popupVars, checkLog, removeLog>>

\* ------------------------------------------ the popup follower script
\* popup.close() on the window the iteration opened
closePopup ==
  /\ popup' = "closed"
  /\ openPopups' = 0

\* lines 297-316: the progress line every 10 checks and the pause between
\* followers that ends an iteration
NextFollower ==
  /\ pc' = "f_scan"
  /\ profile' = NoProfile
  /\ logLine' = IF totalChecked % 10 = 0 THEN totalChecked ELSE -1
  /\ waited' = PCONFIG.betweenFollowers
  /\ paused' = TRUE

\* lines 247-251 and 256-261: an iteration left by `continue` inside the
\* try block, which jumps to the loop condition past the pause of line 316
Continue ==
  /\ pc' = "f_scan"
  /\ profile' = NoProfile
  /\ logLine' = -1
  /\ waited' = 0
  /\ UNCHANGED paused

\* the catch handler without its count
PopupCatchUncounted ==
  /\ pc' = "f_scan"
  /\ profile' = NoProfile
  /\ UNCHANGED totalFailed
  /\ raised' = TRUE
  /\ logLine' = -1
  /\ waited' = PCONFIG.betweenFollowers
  /\ paused' = TRUE
  /\ IF popup = "open" THEN closePopup ELSE UNCHANGED <<popup, openPopups>>

\* lines 304-316: the catch handler of the iteration and the pause after it
PopupCatch ==
  /\ pc' = "f_scan"
  /\ profile' = NoProfile
  /\ totalFailed' = totalFailed + 1
  /\ raised' = TRUE
  /\ logLine' = -1
  /\ waited' = PCONFIG.betweenFollowers
  /\ paused' = TRUE
  /\ IF popup = "open" THEN closePopup ELSE UNCHANGED <<popup, openPopups>>

\* lines 241-251: window.open into the window named 'followerCheck'; it
\* returns null when the browser blocks the popup
OpenPopup ==
  /\ script = "followersPopup"
  /\ pc = "p_open"
  /\ \E opened \in {"window", "null", "throws"} :
       CASE opened = "window" ->
              /\ popup' = "open"
              /\ openPopups' = 1
              /\ pc' = "p_wait"
              /\ attempt' = 0
              /\ readyState' = "none"
              /\ waited' = 0
              /\ logLine' = -1
              /\ UNCHANGED <<totalFailed, raised, profile, paused>>
         [] opened = "null" ->
              /\ totalFailed' = totalFailed + 1
              /\ Continue
              /\ UNCHANGED <<raised, popupVars>>
         [] opened = "throws" ->
              /\ PopupCatch
              /\ UNCHANGED <<attempt, readyState>>
  /\ UNCHANGED <<script, consecutiveEmptyAttempts, scrolled, scanHist,
                 missed, deletionVars, allVars, callVars, host, paceVars,
                 processedUsernames, follower, activity, totalChecked,
                 totalRemoved, totalSkipped, blocked, checkLog, removeLog>>

\* line 88: the default of the parameter maxAttempts
maxAttempts == 10

\* What one poll of the popup may read: a document that is complete, one
\* that is still loading, no document, or an exception (cross-origin or
\* closed window).
PollReads == {"complete", "loading", "nodocument", "throws"}

\* an exception in a poll taken as the end of the wait
pollOutcomeThrowEnds(r, n) ==
  IF r = "complete" THEN "true"
  ELSE IF r = "throws" \/ n >= maxAttempts THEN "false"
  ELSE "again"

\* lines 89-102: what waitForPopupLoad does after poll number n read r:
\* return true, return false, or poll again
pollOutcome(r, n) ==
  IF r = "complete" THEN "true"
  ELSE IF n >= maxAttempts THEN "false"
  ELSE "again"

\* the load-failure branch without popup.close()
LoadFailedLeftOpen ==
  /\ totalFailed' = totalFailed + 1
  /\ UNCHANGED <<popup, openPopups>>
  /\ Continue

\* lines 256-261: the branch taken when the popup did not load
LoadFailed ==
  /\ totalFailed' = totalFailed + 1
  /\ closePopup
  /\ Continue

\* lines 88-103 and 254-261: one poll of waitForPopupLoad and, when the
\* function returns with it, the branch on its result
PollPopup ==
  /\ script = "followersPopup"
  /\ pc = "p_wait"
  /\ attempt < maxAttempts
  /\ \E r \in PollReads :
       /\ attempt' = attempt + 1
       /\ readyState' = r
       /\ CASE pollOutcome(r, attempt + 1) = "true" ->
                 /\ pc' = "p_check"
                 /\ waited' = 500 + PCONFIG.popupLoad
                 /\ logLine' = -1
                 /\ UNCHANGED <<totalFailed, popup, openPopups, profile,
                                paused>>
            [] pollOutcome(r, attempt + 1) = "false" ->
                 LoadFailed
            [] pollOutcome(r, attempt + 1) = "again" ->
                 /\ pc' = "p_wait"
                 /\ waited' = 500
                 /\ logLine' = -1
                 /\ UNCHANGED <<totalFailed, popup, openPopups, profile,
                                paused>>
  /\ UNCHANGED <<script, consecutiveEmptyAttempts, scrolled, scanHist,
                 raised, missed, deletionVars, allVars, callVars, host,
                 paceVars, processedUsernames, follower, activity,
                 totalChecked, totalRemoved, totalSkipped, blocked, checkLog,
                 removeLog>>

\* lines 105-148: the value checkUserActivity of the popup script returns
\* for the document p; an exception inside it becomes a result
popupCheckUserActivity(p, protected, throws) ==
  IF throws THEN Undated("error")
  ELSE IF protected THEN Undated("protected_account")
  ELSE checkUserActivity(p)

\* activity.skip: set for a protected account only
skipOf(act) == act.kind = "protected_account"

\* lines 263-295: checkUserActivity on the popup, popup.close() and the
\* branch on the result
PopupCheck ==
  /\ script = "followersPopup"
  /\ pc = "p_check"
  /\ closePopup
  /\ \E throws \in BOOLEAN, protected \in BOOLEAN,
        p \in {q \in Profiles : q.landed} :
       LET act == popupCheckUserActivity(p, protected, throws)
       IN /\ activity' = act
          /\ IF skipOf(act)
             THEN /\ totalSkipped' = totalSkipped + 1
                  /\ NextFollower
             ELSE IF inactiveOf(act)
             THEN /\ pc' = "p_remove"
                  /\ profile' = p
                  /\ waited' = 0
                  /\ logLine' = -1
                  /\ UNCHANGED <<totalSkipped, paused>>
             ELSE /\ totalSkipped' = totalSkipped + 1
                  /\ NextFollower
  /\ UNCHANGED <<script, consecutiveEmptyAttempts, totalFailed, scrolled,
                 scanHist, raised, missed, deletionVars, allVars, callVars,
                 host, paceVars, processedUsernames, follower, totalChecked,
                 totalRemoved, blocked, attempt, readyState, checkLog,
                 removeLog>>

\* lines 150-195 and 277-288: removeFollower, which catches what its own
\* steps raise, and the branch on its result
RemoveFollower ==
  /\ script = "followersPopup"
  /\ pc = "p_remove"
  /\ removeLog' = Append(removeLog, follower)
  /\ \E throws \in BOOLEAN, moreButton \in BOOLEAN, removeButton \in BOOLEAN,
        confirmButton \in BOOLEAN :
       IF ~throws /\ moreButton /\ removeButton /\ confirmButton
       THEN /\ totalRemoved' = totalRemoved + 1
            /\ UNCHANGED <<totalFailed, missed>>
       ELSE /\ totalFailed' = totalFailed + 1
            /\ missed' = (missed \/ ~throws)
            /\ UNCHANGED totalRemoved
  /\ NextFollower
  /\ UNCHANGED <<script, consecutiveEmptyAttempts, scrolled, scanHist,
                 raised, deletionVars, allVars, callVars, host, paceVars,
                 processedUsernames, follower, activity, totalChecked,
                 totalSkipped, blocked, popupVars, checkLog>>

NextFollowers ==
  \/ FollowerStart \/ FollowerScan \/ CheckUserActivity
  \/ BlockUser \/ UnblockUser
  \/ OpenPopup \/ PollPopup \/ PopupCheck \/ RemoveFollower

SpecFollowers == InitFollowers /\ [][NextFollowers]_vars

\* The event loop runs every continuation that is ready: a timer of delay()
\* always fires and a step that can be taken is taken.
SpecFollowersFair ==
  InitFollowers /\ [][NextFollowers]_vars /\ WF_vars(NextFollowers)

\* ------------------------------------------------- finder specification
\* findMoreButtonInTweet and findUnretweetButton applied to every item of
\* every generated snapshot.  As in a real snapshot, no two lines carry the
\* same handle; one handle may be a substring of another ("2" and "12").
GenHandles == {<<1>>, <<2>>, <<1, 2>>, <<2, 1>>}

GenLines ==
  {Article(h) : h \in GenHandles}
    \cup {Button("More", h) : h \in GenHandles}
    \cup {Button("unretweet", h) : h \in GenHandles}

uniqueHandles(t) ==
  \A i, j \in 1..Len(t) : i # j => t[i].handle # t[j].handle

GenSnapshots ==
  {Page(t) : t \in {u \in UNION {[1..n -> GenLines] : n \in 1..MaxLines} :
                      uniqueHandles(u)}}

InitFind ==
  /\ script \in ContentScripts
  /\ pc = "find"
  /\ snapshot \in GenSnapshots
  /\ tweet = NoTweet
  /\ handle = NoRef
  /\ snapId = 1
  /\ deletedCount = 0
  /\ consecutiveEmptyAttempts = 0
  /\ totalFailed = 0
  /\ nodes = 0
  /\ idx = 0
  /\ waited = 0
  /\ scrolled = 0
  /\ logLine = -1
  /\ scanHist = <<>>
  /\ raised = FALSE
  /\ missed = FALSE
  /\ completed = 0
  /\ did = {}
  /\ lastClick = NoClick
  /\ nonActionable = FALSE
  /\ dispatched = {}
  /\ selected = 0
  /\ errorAt = "none"
  /\ InitAllContent("direct")
  /\ InitPace
  /\ InitFollowerVars
  /\ InitPopup
  /\ InitHost
  /\ InitCall

finder(to, v, snap, t) ==
  IF to = "foundMore" THEN findMoreButtonInTweet(v, snap, t)
  ELSE findUnretweetButton(v, snap, t)

Find(to) ==
  /\ pc = "find"
  /\ \E k \in 1..Len(findTweetElements(script, snapshot)) :
       LET t == findTweetElements(script, snapshot)[k]
       IN /\ tweet' = t
          /\ handle' = Ref(finder(to, script, snapshot, t), snapId)
          /\ idx' = k
  /\ pc' = to
  /\ UNCHANGED <<script, snapshot, snapId, deletedCount,
                 consecutiveEmptyAttempts, totalFailed, nodes, obsVars,
                 histVars>>
  /\ UNCHANGED <<allVars, paceVars, followerVars, callVars, host, popupVars,
                 logVars>>

FindMore == Find("foundMore")

FindUnretweet == Find("foundUnretweet")

NextFind == FindMore \/ FindUnretweet

SpecFind == InitFind /\ [][NextFind]_vars

\* ------------------------------------------------- function specification
\* getProfileUrl, isRepost and findDeleteButton called on their own with
\* arguments drawn from bounded sets.
\*
\* A JavaScript value: a string with its text, undefined, or a function
\* with the text String() gives for it.
Str(t) == [type |-> "string", text |-> t]

Undefined == [type |-> "undefined", text |-> "undefined"]

Fn(t) == [type |-> "function", text |-> t]

\* lines 37-41: const CONTENT_TYPES = { POSTS: '', REPLIES: '/with_replies',
\* REPOSTS: '' }
CONTENT_TYPES ==
  [POSTS |-> Str(""), REPLIES |-> Str("/with_replies"), REPOSTS |-> Str("")]

\* CONTENT_TYPES is an object literal: a key that is not its own is looked
\* up on Object.prototype
ObjectPrototype ==
  [constructor |-> Fn("function Object() { [native code] }"),
   toString |-> Fn("function toString() { [native code] }")]

\* CONTENT_TYPES[contentType]
Get(key) ==
  IF key \in DOMAIN CONTENT_TYPES THEN CONTENT_TYPES[key]
  ELSE IF key \in DOMAIN ObjectPrototype THEN ObjectPrototype[key]
  ELSE Undefined

\* a || b
Or(a, b) ==
  IF a.type = "undefined" \/ (a.type = "string" /\ a.text = "") THEN b ELSE a

\* a text as the sequence of its non-empty pieces; + appends the piece
\* String(v)
Plus(pieces, v) == IF v.text = "" THEN pieces ELSE Append(pieces, v.text)

\* lines 55-59
getProfileUrl(username, ctype) ==
  LET baseUrl == Plus(<<"https://x.com/">>, Str(username))
      suffix == Or(Get(ctype), Str(""))
  IN Plus(baseUrl, suffix)

Usernames == {"alice", "bob_1", ""}

ContentTypeArgs ==
  {"POSTS", "REPLIES", "REPOSTS", "posts", "LIKES", "", "constructor",
   "toString"}

\* the raw texts handed to isRepost: every set of these words, the empty
\* text and a missing text
TextWords == {"article", "Reposted", "retweeted", "repost", "reposted"}

TweetArgs ==
  {[uid |-> <<1>>, text |-> Line(ws, <<1>>)] : ws \in SUBSET TextWords}
    \cup {[uid |-> <<1>>, text |-> NoText]}

\* the lines of a snapshot taken with a menu open: feed items and links,
\* some with 'delete' in their text, the More button and the menu entries
MenuLines ==
  UNION {{Line({"article"}, h), Line({"article", "delete"}, h),
          Line({"link", "Delete"}, h), Line({"button", "More"}, h),
          Line({"menuitem", "Delete"}, h), Line({"menuitem", "Pin"}, h)} :
            h \in {<<1>>, <<2>>, <<3>>}}

MenuSnapshots ==
  {Page(t) : t \in {u \in UNION {[1..n -> MenuLines] : n \in 1..MaxLines} :
                      uniqueHandles(u)}}

\* the arguments isInactive is called with: no date, an invalid Date, and
\* Dates whose age lies in the future (negative), today, and just below,
\* at and above CONFIG.inactiveDays, to the millisecond
DayAges == {-1, 0, 179, 180, 181, 400}

DateArgs ==
  {NoDate, InvalidDate}
    \cup {DateOf(d, ms) : d \in DayAges, ms \in {0, 1, msPerDay - 1}}

InitCalls ==
  /\ pc = "call"
  /\ \/ /\ script \in ContentScripts
        /\ \/ args \in {<<"getProfileUrl", u, c>> :
                          u \in Usernames, c \in ContentTypeArgs}
           \/ args \in {<<"isRepost", t>> : t \in TweetArgs}
           \/ args \in {<<"findDeleteButton", m>> : m \in MenuSnapshots}
     \/ /\ script \in FollowerScripts
        /\ args \in {<<"isInactive", d>> : d \in DateArgs}
  /\ result = <<>>
  /\ snapshot = NullSnap
  /\ tweet = NoTweet
  /\ handle = NoRef
  /\ snapId = 0
  /\ deletedCount = 0
  /\ consecutiveEmptyAttempts = 0
  /\ totalFailed = 0
  /\ nodes = 0
  /\ idx = 0
  /\ waited = 0
  /\ scrolled = 0
  /\ logLine = -1
  /\ scanHist = <<>>
  /\ raised = FALSE
  /\ missed = FALSE
  /\ completed = 0
  /\ did = {}
  /\ lastClick = NoClick
  /\ nonActionable = FALSE
  /\ dispatched = {}
  /\ selected = 0
  /\ errorAt = "none"
  /\ InitAllContent("direct")
  /\ InitPace
  /\ InitFollowerVars
  /\ InitPopup
  /\ InitHost

\* the function returns: its value is appended to result
Return(value) ==
  /\ result' = Append(result, value)
  /\ pc' = "returned"
  /\ UNCHANGED <<script, snapshot, tweet, handle, snapId, deletedCount,
                 consecutiveEmptyAttempts, totalFailed, nodes, idx, obsVars,
                 histVars, allVars, paceVars, followerVars, args, host,
                 popupVars, logVars>>

CallGetProfileUrl ==
  /\ pc = "call"
  /\ args[1] = "getProfileUrl"
  /\ Return(getProfileUrl(args[2], args[3]))

\* isRepost is called on the same item a second time
CallIsRepost ==
  /\ pc \in {"call", "returned"}
  /\ args[1] = "isRepost"
  /\ Len(result) < 2
  /\ Return(isRepost(args[2]))

CallFindDeleteButton ==
  /\ pc = "call"
  /\ args[1] = "findDeleteButton"
  /\ Return(findDeleteButton(script, args[2]))

CallIsInactive ==
  /\ pc = "call"
  /\ args[1] = "isInactive"
  /\ Return(isInactive(args[2]))

NextCalls ==
  \/ CallGetProfileUrl \/ CallIsRepost \/ CallFindDeleteButton
  \/ CallIsInactive

SpecCalls == InitCalls /\ [][NextCalls]_vars


\* ------------------------------------------------------------ properties
emptyScans == Cardinality({i \in 1..Len(scanHist) : scanHist[i]})
nonEmptyScans == Len(scanHist) - emptyScans

\* the feed yielded candidates for its first K scans and none afterwards
feedDriesUp ==
  \A i, j \in 1..Len(scanHist) : (i < j /\ scanHist[i]) => scanHist[j]

\* no primitive raised and every control that was looked up was found
allActionsSucceeded == ~raised /\ ~missed

\* C1: when the feed yields candidates for exactly K scans and then none,
\* and every action succeeds, deleteContent returns after exactly
\* K + MAX_EMPTY_ATTEMPTS scan cycles with deletedCount = K.
C1_TerminationCount ==
  (script \in ContentScripts /\ pc = "done" /\ feedDriesUp
     /\ allActionsSucceeded)
    => /\ Len(scanHist) = nonEmptyScans + MAX_EMPTY_ATTEMPTS
       /\ deletedCount = nonEmptyScans

C1_Witness ==
  /\ script \in ContentScripts /\ pc = "done" /\ feedDriesUp
  /\ allActionsSucceeded
  /\ nonEmptyScans = 2 /\ deletedCount = 2

\* C2: an exception raised while one candidate is processed never leaves
\* deleteContent: whatever primitive raises in the item path, the per-item
\* handler ends in the next scan cycle and not in a propagated exception.
C2_NoItemErrorAborts == ~(pc = "error" /\ errorAt = "catch")

\* C3: deletedCount increases for an item only when every step of its path
\* was performed: More, Delete and the confirmation for an ordinary item,
\* undo and undo-confirm for a repost.
C3_NoSilentPartialSuccess ==
  [][deletedCount' > deletedCount =>
       \/ {"more", "delete", "confirm"} \subseteq did'
       \/ {"undo", "undoConfirm"} \subseteq did']_vars

\* C4: every handle passed to click was extracted from the snapshot that is
\* the most recent one at the time of the click.
C4_NoCrossSnapshotHandle == lastClick.sid = lastClick.at

C4_Witness ==
  /\ script \in ContentScripts
  /\ "delete" \in did
  /\ lastClick.uid # NoHandle
  /\ lastClick.at >= 2

\* line of the snapshot that is the container of the item
containerOf(lines, t) ==
  CHOOSE i \in 1..Len(lines) :
    includes(lines[i], "article") /\ matchHandle(lines[i]) = t.uid

\* C5: in a snapshot with two or more item containers, the handle returned
\* for item A by findMoreButtonInTweet or findUnretweetButton is never the
\* handle of a line that lies in the container of a different item B.
C5_ScopingCorrectness ==
  (pc \in {"foundMore", "foundUnretweet"}
     /\ Len(findTweetElements(script, snapshot)) >= 2) =>
    LET lines == linesOf(script, snapshot)
        a == containerOf(lines, tweet)
    IN \A i \in 1..Len(lines) :
         (handle.uid # NoHandle /\ matchHandle(lines[i]) = handle.uid) =>
           ~\E b \in 1..Len(lines) :
              /\ b # a
              /\ includes(lines[b], "article")
              /\ matchHandle(lines[b]) # NoHandle
              /\ inContainer(lines, b, i)

C8_SoleTermination ==
  (script \in ContentScripts /\ pc = "done") =>
    /\ Len(scanHist) >= MAX_EMPTY_ATTEMPTS
    /\ \A i \in (Len(scanHist) - MAX_EMPTY_ATTEMPTS + 1)..Len(scanHist) :
         scanHist[i]

C8_Witness ==
  /\ script \in ContentScripts /\ pc = "done"
  /\ Len(scanHist) = 5
  /\ scanHist[1] /\ ~scanHist[2]
  /\ raised

\* C9: a scan in which no item is found reaches the loop as an empty list;
\* the extraction never raises.
C9_ExtractionNeverErrors ==
  ~(pc = "error" /\ errorAt = "findTweetElements")

\* C10: a first candidate without a control inside its container receives
\* no click and no dialog action.
C10_NonActionableSkipped == nonActionable => did = {}

C12_RecoverableAfterFailure ==
  [][(script \in ContentScripts /\ pc' = "scan"
        /\ "more" \in did /\ "delete" \notin did)
       => "dismiss" \in did]_vars

\* the raw text of the item carries one of the repost markers
hasRepostMarker(t) ==
  \E w \in {"Reposted", "retweeted", "repost"} : includes(t.text, w)

\* C13: in deleteContent an item whose text carries a repost marker only
\* receives the undo click and the undo confirmation, every other item
\* only the More click, the delete click and the confirmation.
C13_PathSeparation ==
  (script \in ContentScripts /\ tweet # NoTweet) =>
    IF hasRepostMarker(tweet)
    THEN did \subseteq {"undo", "undoConfirm"}
    ELSE did \subseteq {"more", "delete", "confirm"}

C13_Witness ==
  /\ script \in ContentScripts
  /\ pc = "endScroll"
  /\ hasRepostMarker(tweet)
  /\ did = {"undo", "undoConfirm"}
  /\ deletedCount = 2


\* C14: an empty scan adds one to the empty-scan counter; below the maximum
\* the next step is one scroll followed by the load wait and then the next
\* scan, at the maximum the run has ended and issues nothing more.
C14_EmptyScanHandling ==
  [][(script \in ContentScripts) =>
      (/\ (pc = "scan" /\ Len(scanHist') > Len(scanHist)
             /\ scanHist'[Len(scanHist')])
            => /\ consecutiveEmptyAttempts' = consecutiveEmptyAttempts + 1
               /\ pc' = IF consecutiveEmptyAttempts' < MAX_EMPTY_ATTEMPTS
                        THEN "emptyScroll" ELSE "done"
               /\ scrolled' = scrolled
       /\ (pc = "emptyScroll" /\ pc' # "error")
            => /\ pc' = "scan"
               /\ scrolled' = 300
               /\ waited' = cfg.scrollLoad
               /\ snapId' = snapId
       /\ pc # "done")]_vars

C14_Witness ==
  /\ script \in ContentScripts
  /\ pc = "done"
  /\ consecutiveEmptyAttempts = MAX_EMPTY_ATTEMPTS
  /\ scanHist = <<TRUE, TRUE, TRUE>>
  /\ scrolled = 300
  /\ ~raised

\* position of the last scan that yielded a candidate, 0 if there is none
lastNonEmpty(h) ==
  IF \E i \in 1..Len(h) : ~h[i]
  THEN CHOOSE i \in 1..Len(h) : ~h[i] /\ \A j \in (i + 1)..Len(h) : h[j]
  ELSE 0

\* C15: consecutiveEmptyAttempts stays within 0..MAX_EMPTY_ATTEMPTS and is
\* the number of empty scans since the last non-empty scan (or the start);
\* the run has ended only with the counter at the maximum.
C15_EmptyCounterInvariant ==
  (script \in ContentScripts /\ pc # "find") =>
    /\ consecutiveEmptyAttempts \in 0..MAX_EMPTY_ATTEMPTS
    /\ consecutiveEmptyAttempts = Len(scanHist) - lastNonEmpty(scanHist)
    /\ pc = "done" => consecutiveEmptyAttempts = MAX_EMPTY_ATTEMPTS

C15_Witness ==
  /\ script \in ContentScripts
  /\ scanHist = <<TRUE, TRUE, FALSE, TRUE>>
  /\ consecutiveEmptyAttempts = 1

\* C16: deleteContent prints a progress line exactly in the steps in which
\* deletedCount has just grown to a positive multiple of CONFIG.logInterval.
C16_ProgressLog ==
  [][(script \in ContentScripts) =>
       (logLine' # -1 <=>
          /\ deletedCount' = deletedCount + 1
          /\ deletedCount' % cfg.logInterval = 0
          /\ logLine' = deletedCount')]_vars

\* C17: deleteContent never takes a scan snapshot right after another host
\* action without a delay in between.
C17_SettlePause ==
  (script \in ContentScripts /\ pc = "scan") => waited > 0

\* C18: when the first click of an item follows a completed removal, at
\* least afterDeletion + rateLimitSafe ms (1 second with the default
\* configuration) were awaited since the confirmation.
C18_PacingBetweenDeletions ==
  (script \in ContentScripts /\ pc \in {"clickMore", "clickUnretweet"}
     /\ sinceConfirm # -1)
    => /\ sinceConfirm >= cfg.afterDeletion + cfg.rateLimitSafe
       /\ script \in DevtoolsScripts => sinceConfirm >= 1000

C18_Witness ==
  /\ script \in DevtoolsScripts
  /\ pc = "clickMore"
  /\ completed = 1
  /\ sinceConfirm = cfg.afterDeletion + cfg.rateLimitSafe + cfg.scrollLoad


\* C19: while a host call of deleteContent is issued no other host call is
\* unsettled, none stays unsettled when the function resumes, and the
\* REPLIES call of deleteAllContent runs only after the POSTS call returned.
C19_SingleActor ==
  /\ inflight <= 1
  /\ pending = 0
  /\ contentType = "REPLIES" =>
       (Len(returned) >= 1 /\ returned[1] = "POSTS")
  /\ contentType = "POSTS" => returned = <<>>

C19_Witness ==
  /\ caller = "deleteAllContent"
  /\ contentType = "REPLIES"
  /\ summary.posts = 1
  /\ pc = "menuSnap"
  /\ inflight = 1


\* C20: whenever the block/unblock script is about to look for the next
\* follower, or has finished, no follower it blocked is still blocked.
C20_BlockThenUnblock ==
  (script = "followers" /\ pc \in {"f_scan", "f_done"}) => blocked = {}


\* C21: whenever blockUser is about to be invoked for a follower, the
\* document that was read is that follower's profile, it shows a dated
\* tweet, and every dated tweet on it, the latest one included, is more
\* than inactiveDays old.
C21_OnlyInactiveRemoved ==
  (script = "followers" /\ pc = "f_block") =>
    /\ activity \in Activities
    /\ profile.landed
    /\ \E i \in 1..Len(profile.tweets) : profile.tweets[i] \in Ages
    /\ \A i \in 1..Len(profile.tweets) :
         profile.tweets[i] \in Ages => isInactive(DateOf(profile.tweets[i], 0))


C23_CountersPerRun ==
  caller = "deleteAllContent" =>
    /\ pc = "start" => (deletedCount = 0 /\ consecutiveEmptyAttempts = 0)
    /\ pc # "allDone" =>
         consecutiveEmptyAttempts = Len(scanHist) - lastNonEmpty(scanHist)
    /\ completed <= deletedCount
    /\ deletedCount <= selected
    /\ selected <= nonEmptyScans
    /\ pc = "done" =>
         /\ Len(scanHist) >= MAX_EMPTY_ATTEMPTS
         /\ \A i \in 1..Len(scanHist) :
              i > Len(scanHist) - MAX_EMPTY_ATTEMPTS => scanHist[i]

C23_Witness ==
  /\ caller = "deleteAllContent"
  /\ contentType = "REPLIES"
  /\ summary.posts = 1
  /\ pc = "done"
  /\ deletedCount = 0
  /\ scanHist = <<TRUE, TRUE, TRUE>>


\* C24: every window.scrollBy issued by deleteContent, after an empty scan,
\* after a per-item error and at the end of a cycle, scrolls by
\* CONFIG.scrollAmount.
C24_ConfiguredScroll ==
  (script \in ContentScripts /\ scrolled # 0) => scrolled = cfg.scrollAmount


\* C25: getProfileUrl(username, contentType) returns https://x.com/<username>
\* followed by '/with_replies' for REPLIES and by nothing for POSTS, for
\* REPOSTS and for every other content type.
C25_UrlDerivation ==
  (pc = "returned" /\ args[1] = "getProfileUrl") =>
    LET baseUrl == IF args[2] = "" THEN <<"https://x.com/">>
                   ELSE <<"https://x.com/", args[2]>>
    IN result = <<IF args[3] = "REPLIES"
                  THEN Append(baseUrl, "/with_replies")
                  ELSE baseUrl>>


\* C26: isRepost yields the repost kind exactly when the raw text contains
\* 'Reposted', 'retweeted' or 'repost' (as a substring: 'reposted' counts),
\* an empty or missing text is an ordinary post, and a second call on the
\* same item yields the same kind as the first.
C26_Classification ==
  (args # NoArgs /\ args[1] = "isRepost") =>
    \A i \in 1..Len(result) :
      result[i] = (args[2].text.words
                     \cap {"Reposted", "retweeted", "repost", "reposted"}
                   # {})

C26_Witness ==
  /\ args # NoArgs
  /\ args[1] = "isRepost"
  /\ args[2].text.words = {"article", "retweeted"}
  /\ result = <<TRUE, TRUE>>


C28_Terminates == <>(pc \in {"done", "error"})


\* C29: the handle findDeleteButton returns for a snapshot taken with the
\* menu open is the handle of a 'Delete' menu entry, never that of another
\* line of the snapshot.
C29_DeleteLookupTargetsMenu ==
  (pc = "returned" /\ args[1] = "findDeleteButton"
     /\ \E j \in 1..Len(args[2].text) :
          args[2].text[j].words = {"menuitem", "Delete"}) =>
    \E i \in 1..Len(args[2].text) :
      /\ args[2].text[i].handle = result[1]
      /\ args[2].text[i].words = {"menuitem", "Delete"}


\* C30: in deleteContent the success count never decreases, a step raises
\* it by at most one and only as the last action of a cycle, and it moves
\* exactly in the steps in which a removal is confirmed, so that the value
\* returned is the number of cycles whose removal path completed.
C30_CountMonotoneExact ==
  [][(script \in ContentScripts) =>
       /\ deletedCount' >= deletedCount
       /\ deletedCount' <= deletedCount + 1
       /\ deletedCount' > deletedCount => pc' = "endScroll"
       /\ deletedCount' - deletedCount = completed' - completed]_vars


\* C31: in both follower scripts every follower is selected at most once
\* per run: the usernames selected so far are pairwise different and are
\* exactly processedUsernames, totalChecked is the size of that set, and
\* blockUser or removeFollower is invoked at most once per follower and only
\* on followers that were selected.
C31_CheckedOnce ==
  script \in FollowerScripts =>
    /\ \A i, j \in 1..Len(checkLog) : i # j => checkLog[i] # checkLog[j]
    /\ {checkLog[i] : i \in 1..Len(checkLog)} = processedUsernames
    /\ totalChecked = Cardinality(processedUsernames)
    /\ totalChecked = Len(checkLog)
    /\ \A i, j \in 1..Len(removeLog) : i # j => removeLog[i] # removeLog[j]
    /\ {removeLog[i] : i \in 1..Len(removeLog)} \subseteq processedUsernames

\* a run that checked both followers, one of them without removing it, and
\* kept scanning the page afterwards
C31_Witness ==
  /\ script = "followersPopup"
  /\ pc = "f_done"
  /\ Len(checkLog) = 2
  /\ totalRemoved = 1
  /\ totalFailed = 1


\* C32: in both follower scripts, whenever a loop iteration starts and at
\* the final summary, totalChecked = totalRemoved + totalSkipped +
\* totalFailed; no counter ever decreases, so each checked follower has
\* added one to exactly one of removed, skipped and failed.
C32_CounterConservation ==
  /\ []((script \in FollowerScripts /\ pc \in {"f_scan", "f_done"}) =>
          totalChecked = totalRemoved + totalSkipped + totalFailed)
  /\ [][(script \in FollowerScripts) =>
          (/\ totalRemoved' >= totalRemoved
           /\ totalSkipped' >= totalSkipped
           /\ totalFailed' >= totalFailed
           /\ (totalRemoved' - totalRemoved) + (totalSkipped' - totalSkipped)
                + (totalFailed' - totalFailed) <= 1)]_vars

\* a popup run at its summary after one iteration ended in the catch
\* handler and another was left because the popup did not open or load
C32_Witness ==
  /\ script = "followersPopup"
  /\ pc = "f_done"
  /\ raised
  /\ totalChecked = 2
  /\ totalFailed = 2


\* C33: with a finite set of followers on the page both follower scripts
\* terminate, and the loop has ended exactly when the last maxEmptyAttempts
\* (3) scans each found no follower outside processedUsernames; a scan that
\* shows only followers already checked counts as empty.  No run needs
\* more than MaxFollowerScans scans, so the scans are never cut short.
C33_LoopTerminates ==
  /\ <>(pc \in {"f_done", "f_notFollowers"})
  /\ [](script \in FollowerScripts =>
          (pc = "f_done" <=>
             /\ Len(scanHist) >= 3
             /\ \A i \in (Len(scanHist) - 2)..Len(scanHist) : scanHist[i]))
  /\ []((script \in FollowerScripts /\ pc = "f_scan") =>
          Len(scanHist) < MaxFollowerScans)

\* the run ended although both checked followers were kept: the scans after
\* the last check found them on the page and counted as empty
C33_Witness ==
  /\ script \in FollowerScripts
  /\ pc = "f_done"
  /\ totalChecked = 2
  /\ totalRemoved = 0
  /\ Len(scanHist) = 5


\* C34: in the popup follower script, when the check of a follower starts
\* after an earlier check of the same run, the betweenFollowers pause has
\* been awaited since that earlier check started.
C34_PauseBetweenFollowers ==
  [][(script = "followersPopup" /\ checkLog # <<>>
        /\ checkLog' # checkLog) => paused]_vars


\* C35: in the popup follower script at most one profile popup is open at
\* any time; a popup is open only while the script waits for it to load or
\* reads it, so none is open when an iteration starts, when the next popup
\* is about to be opened, when removeFollower is invoked, or when the
\* script ends.
C35_PopupLifecycle ==
  script = "followersPopup" =>
    /\ openPopups <= 1
    /\ (popup = "open") = (openPopups = 1)
    /\ pc \in {"f_start", "f_scan", "p_open", "p_remove", "f_done",
               "f_notFollowers"} => openPopups = 0
    /\ Len(removeLog) > 0 /\ follower = removeLog[Len(removeLog)]
         => popup = "closed"

\* the second follower is about to be removed, its popup closed, after the
\* iteration of the first one failed
C35_Witness ==
  /\ script = "followersPopup"
  /\ pc = "p_remove"
  /\ popup = "closed"
  /\ Len(checkLog) = 2
  /\ totalFailed = 1
  /\ ~raised
  /\ attempt < maxAttempts


\* C36: isInactive returns true exactly when it is given a date whose age
\* is more than 180 days; an age of exactly 180 days, a smaller age, a date
\* in the future, an invalid date and a missing date all give false.
C36_InactivityBoundary ==
  (args # NoArgs /\ args[1] = "isInactive" /\ pc = "returned") =>
    LET d == args[2]
        given == d \notin {NoDate, InvalidDate}
        older == d.days > 180 \/ (d.days = 180 /\ d.ms > 0)
    IN /\ result[1] \in BOOLEAN
       /\ result[1] = (given /\ older)
       /\ d = DateOf(180, 0) => ~result[1]
       /\ d = DateOf(180, 1) => result[1]
       /\ (given /\ d.days < 180) => ~result[1]
       /\ ~given => ~result[1]

\* the call on a date that is exactly 180 days old has returned false
C36_Witness ==
  /\ args = <<"isInactive", DateOf(180, 0)>>
  /\ pc = "returned"
  /\ result = <<FALSE>>


\* C37: waitForPopupLoad polls at most 10 times and always returns: it
\* returns true at the first poll that reads readyState 'complete', returns
\* false after the tenth poll when none did, and a poll that raises changes
\* nothing but the poll count.
C37_BoundedPopupWait ==
  /\ [](script = "followersPopup" =>
          /\ attempt <= 10
          /\ pc = "p_wait" => (attempt < 10 /\ readyState # "complete")
          /\ pc = "p_check" => readyState = "complete")
  /\ [][(pc = "p_wait") =>
          (/\ attempt' = attempt + 1
           /\ (pc' = "p_check") = (readyState' = "complete")
           /\ (pc' = "f_scan") = (readyState' # "complete" /\ attempt' = 10)
           /\ (pc' = "f_scan") => (totalFailed' = totalFailed + 1)
           /\ (readyState' = "throws") =>
                (/\ raised' = raised
                 /\ attempt' < 10 =>
                      (pc' = "p_wait" /\ totalFailed' = totalFailed)))]_vars
  /\ (pc = "p_wait") ~> (pc # "p_wait")

\* the wait returned false after ten polls, the last of which raised, and
\* the iteration was left without the catch handler
C37_Witness ==
  /\ script = "followersPopup"
  /\ pc = "f_scan"
  /\ popup = "closed"
  /\ attempt = 10
  /\ readyState = "throws"
  /\ ~raised
  /\ totalFailed = 1

====
